---- MODULE Spec2Model ----
(***************************************************************************)
(* Cal.com booking webhook -> transactional email with a calendar invite.  *)
(* The model follows pages/api webhook handler (src/unnamed/part_000), the *)
(* Postmark wrapper (src/unnamed/part_001) and the ICS builder             *)
(* (src/apps/web/lib/webhook-email/ics-builder.ts).                         *)
(***************************************************************************)
EXTENDS Integers, Sequences, FiniteSets, TLC

VARIABLES
    env,        \* process.env: the three configuration values
    req,        \* the request being handled: method, signature header, raw body
    pc,         \* position of the handler: idle, reading, fetching, done, threw
    parsed,     \* TRUE once JSON.parse(rawBody) has been called for this request
    trigger,    \* result of normalizeTrigger for this request ("none" before)
    built,      \* invites built by buildIcsString calls of this request
    fetches,    \* outbound calls to the email provider made by this request
    res,        \* responses written by the handler for this request
    nreq,       \* number of requests received so far
    uuids,      \* number of crypto.randomUUID() values issued so far
    stage,      \* lifecycle of one booking: index of the next delivery
    log,        \* invites delivered (provider accepted) for that booking
    booking,    \* the booking whose deliveries the sender makes
    probe,      \* a pure function applied to an input: [fn, arg, out]
    user,       \* the row of the user in the database (two-factor setup)
    setup       \* the two-factor setup requests: position and locals of each

vars == <<env, req, pc, parsed, trigger, built, fetches, res, nreq, uuids, stage, log, booking, probe, user, setup>>

(***************************************************************************)
(* Bounds of the model.                                                    *)
(***************************************************************************)
MaxRequests == 1     \* requests one behaviour of Spec receives
MaxSeq == 2          \* largest iCalSequence a payload carries
MaxFrags == 2        \* fragments concatenated into a trigger value
MaxSetups == 2       \* two-factor setup requests made for the user
MaxTextLen == 2      \* code units of a text given to symmetricEncrypt

(***************************************************************************)
(* JavaScript values.  undefined is Undef for string-typed fields, NoNum   *)
(* for number-typed fields, <<>> for optional objects and arrays (a        *)
(* present object or array v is <<v>>).  A trigger value is a sequence of  *)
(* one-character strings so that toUpperCase, replace and includes can be  *)
(* computed; UndefTrig is the undefined trigger.                           *)
(***************************************************************************)
Undef == "<undefined>"
NoNum == -1
UndefTrig == <<"<undefined>">>

Falsy(v) == v = Undef \/ v = ""
Or(a, b) == IF Falsy(a) THEN b ELSE a

FalsyTrig(t) == t = UndefTrig \/ t = <<>>
OrTrig(a, b) == IF FalsyTrig(a) THEN b ELSE a

(***************************************************************************)
(* normalizeTrigger (part_000:79-86).                                      *)
(***************************************************************************)
LowerCase == <<"a","b","c","d","e","g","h","i","k","l","n","o","p","r","s","t","u">>
UpperCase == <<"A","B","C","D","E","G","H","I","K","L","N","O","P","R","S","T","U">>
Whitespace == {" ", "\t"}

UpperChar(c) ==
    IF \E i \in 1..Len(LowerCase) : LowerCase[i] = c
    THEN UpperCase[CHOOSE i \in 1..Len(LowerCase) : LowerCase[i] = c]
    ELSE c

toUpperCase(s) == [i \in 1..Len(s) |-> UpperChar(s[i])]

\* s.replace(/\s+/g, "_"): every maximal run of whitespace becomes one "_"
RECURSIVE replaceWhitespace(_)
replaceWhitespace(s) ==
    IF s = <<>> THEN <<>>
    ELSE IF Head(s) \in Whitespace
         THEN IF Len(s) > 1 /\ s[2] \in Whitespace
              THEN replaceWhitespace(Tail(s))
              ELSE <<"_">> \o replaceWhitespace(Tail(s))
         ELSE <<Head(s)>> \o replaceWhitespace(Tail(s))

includes(t, kw) ==
    \E i \in 0..(Len(t) - Len(kw)) : SubSeq(t, i + 1, i + Len(kw)) = kw

CREATED == <<"C","R","E","A","T","E","D">>
RESCHEDULED == <<"R","E","S","C","H","E","D","U","L","E","D">>
CANCEL == <<"C","A","N","C","E","L">>
BOOKING_ == <<"B","O","O","K","I","N","G","_">>
BOOKING_CREATED == BOOKING_ \o CREATED
BOOKING_RESCHEDULED == BOOKING_ \o RESCHEDULED
BOOKING_CANCELLED == BOOKING_ \o CANCEL \o <<"L","E","D">>

normalizeTriggerNoUpper(trig) ==
    IF FalsyTrig(trig) THEN "unknown"
    ELSE LET t == replaceWhitespace(trig) IN
         IF includes(t, CREATED) \/ t = BOOKING_CREATED THEN "BOOKING_CREATED"
         ELSE IF includes(t, RESCHEDULED) \/ t = BOOKING_RESCHEDULED THEN "BOOKING_RESCHEDULED"
         ELSE IF includes(t, CANCEL) \/ t = BOOKING_CANCELLED THEN "BOOKING_CANCELLED"
         ELSE "unknown"

normalizeTriggerDefaultCreated(trig) ==
    IF FalsyTrig(trig) THEN "BOOKING_CREATED"
    ELSE LET t == replaceWhitespace(toUpperCase(trig)) IN
         IF includes(t, RESCHEDULED) \/ t = BOOKING_RESCHEDULED THEN "BOOKING_RESCHEDULED"
         ELSE IF includes(t, CANCEL) \/ t = BOOKING_CANCELLED THEN "BOOKING_CANCELLED"
         ELSE "BOOKING_CREATED"

normalizeTrigger(trig) ==
    IF FalsyTrig(trig) THEN "unknown"
    ELSE LET t == replaceWhitespace(toUpperCase(trig)) IN
         IF includes(t, CREATED) \/ t = BOOKING_CREATED THEN "BOOKING_CREATED"
         ELSE IF includes(t, RESCHEDULED) \/ t = BOOKING_RESCHEDULED THEN "BOOKING_RESCHEDULED"
         ELSE IF includes(t, CANCEL) \/ t = BOOKING_CANCELLED THEN "BOOKING_CANCELLED"
         ELSE "unknown"

(***************************************************************************)
(* Signature check (part_000:49-56, 292-295).  A hex digest is kept as the *)
(* key and the message it was computed from, with its length in            *)
(* characters: two digests are the same string exactly when they agree on  *)
(* all three (HMAC-SHA256 is taken to be collision free on the inputs of   *)
(* the model).  A prefix of a digest has a smaller len.                    *)
(***************************************************************************)
DigestLen == 64
EmptySig == [len |-> 0, key |-> "", msg |-> <<>>]

HmacSha256Hex(secret, rawBody) == [len |-> DigestLen, key |-> secret, msg |-> <<rawBody>>]

timingSafeEqualLengthOnly(a, b) ==
    IF a.len # b.len THEN FALSE ELSE TRUE

timingSafeEqual(a, b) ==
    IF a.len # b.len THEN FALSE
    ELSE a = b

\* (req.headers["x-cal-signature-256"] as string) || ""
receivedSigOf(header) == IF header = <<>> THEN EmptySig ELSE header[1]

signatureRejected(header, secret, rawBody) ==
    LET receivedSig == receivedSigOf(header)
        computedSig == HmacSha256Hex(secret, rawBody)
    IN  receivedSig.len = 0 \/ ~timingSafeEqual(receivedSig, computedSig)

(***************************************************************************)
(* JSON.parse(rawBody) (part_000:301-307).  A raw body is text that is not *)
(* JSON ("garbage"), the JSON null, a JSON scalar or array (every property *)
(* read of it gives undefined, as for an empty object) or a JSON object.   *)
(***************************************************************************)
JSONparseLenient(rawBody) ==
    [threw |-> FALSE, isNull |-> rawBody.kind = "null", value |-> rawBody.event]

JSONparse(rawBody) ==
    [threw |-> rawBody.kind = "garbage",
     isNull |-> rawBody.kind = "null",
     value |-> rawBody.event]

(***************************************************************************)
(* new Date(string) and the getUTC* accessors (part_000:323-328,           *)
(* ics-builder.ts:4-12).  A date is the number of minutes since the epoch, *)
(* or an Invalid Date.                                                     *)
(***************************************************************************)
IsoStrings ==
    ( "2024-01-01T15:00:00Z"      :> [y |-> 2024, m |-> 1, d |-> 1, h |-> 15, mi |-> 0,  off |-> 0] ) @@
    ( "2024-01-01T15:30:00Z"      :> [y |-> 2024, m |-> 1, d |-> 1, h |-> 15, mi |-> 30, off |-> 0] ) @@
    ( "2024-01-01T10:00:00-05:00" :> [y |-> 2024, m |-> 1, d |-> 1, h |-> 10, mi |-> 0,  off |-> -300] ) @@
    ( "2024-03-01T00:30:00+01:00" :> [y |-> 2024, m |-> 3, d |-> 1, h |-> 0,  mi |-> 30, off |-> 60] )

InvalidDate == [valid |-> FALSE, t |-> 0]

\* Days since the epoch of a proleptic Gregorian date, and back; each step
\* takes the quantities it needs as parameters.
DayOfEra(yoe, mp, d) == yoe * 365 + yoe \div 4 - yoe \div 100 + (153 * mp + 2) \div 5 + d - 1

DaysFromShiftedYear(yy, mp, d) == (yy \div 400) * 146097 + DayOfEra(yy % 400, mp, d) - 719468

DaysFromCivil(y, m, d) ==
    DaysFromShiftedYear(IF m <= 2 THEN y - 1 ELSE y, IF m > 2 THEN m - 3 ELSE m + 9, d)

CivilFromMonthIndex(yy, doy, mp) ==
    [y |-> yy + (IF mp < 10 THEN 0 ELSE 1),
     m |-> IF mp < 10 THEN mp + 3 ELSE mp - 9,
     d |-> doy - (153 * mp + 2) \div 5 + 1]

CivilFromDayOfYear(yy, doy) == CivilFromMonthIndex(yy, doy, (5 * doy + 2) \div 153)

CivilFromYearOfEra(era, doe, yoe) ==
    CivilFromDayOfYear(yoe + era * 400, doe - (365 * yoe + yoe \div 4 - yoe \div 100))

CivilFromDayOfEra(era, doe) ==
    CivilFromYearOfEra(era, doe, (doe - doe \div 1460 + doe \div 36524 - doe \div 146096) \div 365)

CivilFromShiftedDays(z) == CivilFromDayOfEra(z \div 146097, z % 146097)

CivilFromDays(days) == CivilFromShiftedDays(days + 719468)

NewDate(s) ==
    IF s \in DOMAIN IsoStrings
    THEN LET c == IsoStrings[s] IN
         [valid |-> TRUE,
          t |-> (DaysFromCivil(c.y, c.m, c.d) * 24 + c.h) * 60 + c.mi - c.off]
    ELSE InvalidDate

NaN == -1

getUTCFullYear(date) == CivilFromDays(date.t \div 1440).y
getUTCMonth(date) == CivilFromDays(date.t \div 1440).m - 1
getUTCDate(date) == CivilFromDays(date.t \div 1440).d
getUTCHours(date) == (date.t % 1440) \div 60
getUTCMinutes(date) == date.t % 60

toDateArrayZeroBasedMonth(date) ==
    IF ~date.valid THEN <<NaN, NaN, NaN, NaN, NaN>>
    ELSE <<getUTCFullYear(date), getUTCMonth(date), getUTCDate(date),
           getUTCHours(date), getUTCMinutes(date)>>

toDateArray(date) ==
    IF ~date.valid THEN <<NaN, NaN, NaN, NaN, NaN>>
    ELSE <<getUTCFullYear(date), getUTCMonth(date) + 1, getUTCDate(date),
           getUTCHours(date), getUTCMinutes(date)>>

(***************************************************************************)
(* buildIcsString (ics-builder.ts:14-51).  createEvent is the ics          *)
(* library: it answers either an error or a calendar document, never       *)
(* both and never neither; enc is its verdict on the attributes, which is  *)
(* "error" whenever a date component is not a number.  A document is the   *)
(* one-element sequence of the attributes it encodes, the empty string is  *)
(* the empty sequence.                                                     *)
(***************************************************************************)
EmptyString == <<>>

createEvent(attrs, enc) ==
    IF enc = "error" \/ NaN \in {attrs.start[i] : i \in 1..5} \/ NaN \in {attrs.end[i] : i \in 1..5}
    THEN [error |-> TRUE, value |-> EmptyString]
    ELSE [error |-> FALSE, value |-> <<attrs>>]

IcsAttributesFromMethod(params) ==
    LET partstat == IF params.method = "CANCEL" THEN "DECLINED" ELSE "ACCEPTED"
        busyStatus == IF params.method = "CANCEL" THEN "FREE" ELSE "BUSY"
    IN  [uid |-> params.uid,
         sequence |-> IF params.sequence = NoNum THEN 0 ELSE params.sequence,
         start |-> toDateArray(params.start),
         end |-> toDateArray(params.end),
         startInputType |-> "utc",
         productId |-> "calcom/webhook-ics",
         title |-> params.title,
         description |-> params.description,
         organizer |-> [name |-> Or(params.organizer.name, "Organizer"),
                        email |-> params.organizer.email],
         attendees |-> << [name |-> Or(params.attendee.name, "Attendee"),
                           email |-> params.attendee.email,
                           partstat |-> partstat,
                           role |-> "REQ-PARTICIPANT",
                           rsvp |-> TRUE] >>,
         location |-> params.location,
         method |-> params.method,
         status |-> params.status,
         busyStatus |-> busyStatus]

IcsAttributes(params) ==
    LET partstat == IF params.status = "CANCELLED" THEN "DECLINED" ELSE "ACCEPTED"
        busyStatus == IF params.status = "CANCELLED" THEN "FREE" ELSE "BUSY"
    IN  [uid |-> params.uid,
         sequence |-> IF params.sequence = NoNum THEN 0 ELSE params.sequence,
         start |-> toDateArray(params.start),
         end |-> toDateArray(params.end),
         startInputType |-> "utc",
         productId |-> "calcom/webhook-ics",
         title |-> params.title,
         description |-> params.description,
         organizer |-> [name |-> Or(params.organizer.name, "Organizer"),
                        email |-> params.organizer.email],
         attendees |-> << [name |-> Or(params.attendee.name, "Attendee"),
                           email |-> params.attendee.email,
                           partstat |-> partstat,
                           role |-> "REQ-PARTICIPANT",
                           rsvp |-> TRUE] >>,
         location |-> params.location,
         method |-> params.method,
         status |-> params.status,
         busyStatus |-> busyStatus]

buildIcsStringSwallow(params, enc) ==
    LET r == createEvent(IcsAttributes(params), enc) IN
    [threw |-> FALSE, value |-> r.value]

buildIcsString(params, enc) ==
    LET r == createEvent(IcsAttributes(params), enc) IN
    IF r.error THEN [threw |-> TRUE, value |-> EmptyString]
    ELSE [threw |-> FALSE, value |-> r.value]

(***************************************************************************)
(* sendPostmarkEmail (part_001:24-74), in the two parts its await on       *)
(* fetch separates: building the message, and reading the response.        *)
(***************************************************************************)
Base64(text) == [base64 |-> text]

\* icsContent is optional: params may have no such field
hasIcsContent(params) == "icsContent" \in DOMAIN params /\ params.icsContent # EmptyString

PostmarkAttachmentsAlwaysRequest(params) ==
    IF hasIcsContent(params)
    THEN << [Name |-> "invite.ics",
             Content |-> Base64(params.icsContent),
             ContentType |-> [type |-> "text/calendar", method |-> "REQUEST", charset |-> "utf-8"]] >>
    ELSE <<>>

PostmarkAttachments(params) ==
    IF hasIcsContent(params)
    THEN LET method == Or(params.icsMethod, "REQUEST") IN
         << [Name |-> "invite.ics",
             Content |-> Base64(params.icsContent),
             ContentType |-> [type |-> "text/calendar", method |-> method, charset |-> "utf-8"]] >>
    ELSE <<>>

PostmarkMessageNoAttachments(params) ==
    [From |-> params.from,
     To |-> params.to,
     Subject |-> params.subject,
     HtmlBody |-> params.htmlBody,
     MessageStream |-> "outbound",
     Attachments |-> <<>>]

PostmarkMessage(params) ==
    [From |-> params.from,
     To |-> params.to,
     Subject |-> params.subject,
     HtmlBody |-> params.htmlBody,
     MessageStream |-> "outbound",
     Attachments |-> PostmarkAttachments(params)]

sendPostmarkEmailCallWithoutToken(params, token) ==
    [threw |-> FALSE, message |-> <<PostmarkMessage(params)>>]

\* lines 25-56: throws before any call when the token is missing
sendPostmarkEmailCall(params, token) ==
    IF Falsy(token)
    THEN [threw |-> TRUE, message |-> <<>>]
    ELSE [threw |-> FALSE, message |-> <<PostmarkMessage(params)>>]

\* The provider's answers: fetch rejects ("network"), or an HTTP response.
ProviderResponses ==
    { [kind |-> "network", ok |-> FALSE, status |-> 0,   Message |-> Undef],
      [kind |-> "http",    ok |-> TRUE,  status |-> 200, Message |-> "OK"],
      [kind |-> "http",    ok |-> FALSE, status |-> 422, Message |-> "Invalid 'From' address"],
      [kind |-> "http",    ok |-> FALSE, status |-> 500, Message |-> Undef] }

sendPostmarkEmailReturnIgnoreStatus(response) ==
    IF response.kind = "network"
    THEN [threw |-> TRUE, error |-> [status |-> 0, message |-> "fetch failed"]]
    ELSE [threw |-> FALSE, error |-> [status |-> 0, message |-> ""]]

\* lines 57-73: fetch rejecting propagates; a non-ok status throws
sendPostmarkEmailReturn(response) ==
    IF response.kind = "network"
    THEN [threw |-> TRUE, error |-> [status |-> 0, message |-> "fetch failed"]]
    ELSE IF ~response.ok
         THEN [threw |-> TRUE,
               error |-> [status |-> response.status, message |-> Or(response.Message, "{}")]]
         ELSE [threw |-> FALSE, error |-> [status |-> 0, message |-> ""]]

(***************************************************************************)
(* The three trigger handlers (part_000:103-274): the parameters each      *)
(* gives buildIcsString, and the email it sends with the invite.           *)
(***************************************************************************)
HandlerIcsParams(payload, startTime, endTime, attendee, hostEmail, hostName, location, bookingUid, seq, status, method) ==
    [uid |-> bookingUid,
     title |-> Or(payload.title, "Meeting"),
     description |-> payload.description,
     start |-> startTime,
     end |-> endTime,
     organizer |-> [name |-> hostName, email |-> hostEmail],
     attendee |-> [name |-> attendee.name, email |-> attendee.email],
     location |-> location,
     sequence |-> seq,
     status |-> status,
     method |-> method]

HandlerEmail(payload, attendee, hostEmail, hostName, from, headline, subject, method) ==
    [from |-> from,
     to |-> attendee.email,
     subject |-> <<subject, Or(payload.title, "Meeting")>>,
     htmlBody |-> [headline |-> headline,
                   title |-> Or(payload.title, "Meeting"),
                   with |-> Or(hostName, hostEmail)],
     icsMethod |-> method]

handleBookingCreated(payload, startTime, endTime, attendee, hostEmail, hostName, location, bookingUid, sequence, from) ==
    [ics |-> HandlerIcsParams(payload, startTime, endTime, attendee, hostEmail, hostName,
                              location, bookingUid, sequence, "CONFIRMED", "REQUEST"),
     mail |-> HandlerEmail(payload, attendee, hostEmail, hostName, from,
                           "Your meeting is confirmed", "Confirmed: ", "REQUEST")]

handleBookingRescheduled(payload, startTime, endTime, attendee, hostEmail, hostName, location, bookingUid, sequence, from) ==
    [ics |-> HandlerIcsParams(payload, startTime, endTime, attendee, hostEmail, hostName,
                              location, bookingUid, sequence + 1, "CONFIRMED", "REQUEST"),
     mail |-> HandlerEmail(payload, attendee, hostEmail, hostName, from,
                           "Your meeting has been rescheduled", "Rescheduled: ", "REQUEST")]

handleBookingCancelledSameSequence(payload, startTime, endTime, attendee, hostEmail, hostName, location, bookingUid, sequence, from) ==
    [ics |-> HandlerIcsParams(payload, startTime, endTime, attendee, hostEmail, hostName,
                              location, bookingUid, sequence, "CANCELLED", "CANCEL"),
     mail |-> HandlerEmail(payload, attendee, hostEmail, hostName, from,
                           "Your meeting has been cancelled", "Cancelled: ", "CANCEL")]

handleBookingCancelled(payload, startTime, endTime, attendee, hostEmail, hostName, location, bookingUid, sequence, from) ==
    [ics |-> HandlerIcsParams(payload, startTime, endTime, attendee, hostEmail, hostName,
                              location, bookingUid, sequence + 1, "CANCELLED", "CANCEL"),
     mail |-> HandlerEmail(payload, attendee, hostEmail, hostName, from,
                           "Your meeting has been cancelled", "Cancelled: ", "CANCEL")]

(***************************************************************************)
(* Field extraction of the handler (part_000:309-353).                     *)
(***************************************************************************)
\* String(payload.bookingId): numbers are written "num:<digits>"
StringOf(v) ==
    IF v = Undef THEN "undefined"
    ELSE IF v = "num:7" THEN "7"
    ELSE IF v = "num:0" THEN "0"
    ELSE v

rawTriggerOf(event) == OrTrig(event.triggerEvent, OrTrig(event.event, event.type))

payloadOf(event) == IF event.payload # <<>> THEN event.payload[1] ELSE event

\* payload.attendees || payload.attendeesList || [], then [0]
firstAttendeeOf(payload) ==
    LET attendees == IF payload.attendees # <<>> THEN payload.attendees[1]
                     ELSE IF payload.attendeesList # <<>> THEN payload.attendeesList[1]
                     ELSE <<>>
    IN  IF attendees = <<>> THEN <<>> ELSE <<attendees[1]>>

attendeeEmailMissing(att) == att = <<>> \/ Falsy(att[1].email)

organizerEmailOf(payload) == IF payload.organizer = <<>> THEN Undef ELSE payload.organizer[1].email
organizerNameOf(payload) == IF payload.organizer = <<>> THEN Undef ELSE payload.organizer[1].name

hostEmailOf(payload) == Or(payload.hostEmail, organizerEmailOf(payload))
hostNameOf(payload) == Or(payload.organizerName, Or(payload.hostName, organizerNameOf(payload)))

locationOfMeetingUrlFirst(payload) ==
    Or(payload.meetingUrl, Or(payload.location, Or(payload.videoCallUrl, Or(payload.conferenceUrl, ""))))

locationOf(payload) ==
    Or(payload.location, Or(payload.meetingUrl, Or(payload.videoCallUrl, Or(payload.conferenceUrl, ""))))

\* the documented fallback: a random UUID whenever no identifier is present
bookingUidOfFreshWhenAbsent(payload, uuid) ==
    Or(payload.iCalUID, Or(payload.bookingUid, Or(payload.uid,
       IF Falsy(payload.bookingId) THEN uuid ELSE StringOf(payload.bookingId))))

bookingUidOf(payload, uuid) ==
    Or(payload.iCalUID, Or(payload.bookingUid, Or(payload.uid, Or(StringOf(payload.bookingId), uuid))))

sequenceOf(payload) == IF payload.iCalSequence = NoNum \/ payload.iCalSequence = 0 THEN 0 ELSE payload.iCalSequence

(***************************************************************************)
(* handler (part_000:276-409) from the end of readRawBody to its next      *)
(* await: either it writes a response, or it throws outside its try block  *)
(* (no response is written), or it has called fetch and awaits the answer. *)
(* enc is the verdict of the ics library, uuid the value randomUUID()      *)
(* returns if it is called.                                                *)
(***************************************************************************)
NoInvite == [trigger |-> "none", uid |-> "", sequence |-> 0, carried |-> 0,
             method |-> "", status |-> ""]

JsonBody(kind, detail, ignored) == [kind |-> kind, detail |-> detail, ignored |-> ignored]

Outcome(kind, status, body, didParse, trig, builds, message, invite, uid) ==
    [kind |-> kind, status |-> status, body |-> body, parsed |-> didParse, trigger |-> trig,
     built |-> builds, message |-> message, invite |-> invite, bookingUid |-> uid]

Respond(status, body, didParse, trig, builds, uid) ==
    Outcome("respond", status, body, didParse, trig, builds, <<>>, NoInvite, uid)

dispatch(trig, payload, startTime, endTime, attendee, hostEmail, hostName, location, bookingUid, sequence, from) ==
    IF trig = "BOOKING_CREATED"
    THEN handleBookingCreated(payload, startTime, endTime, attendee, hostEmail, hostName,
                              location, bookingUid, sequence, from)
    ELSE IF trig = "BOOKING_RESCHEDULED"
    THEN handleBookingRescheduled(payload, startTime, endTime, attendee, hostEmail, hostName,
                                  location, bookingUid, sequence, from)
    ELSE handleBookingCancelled(payload, startTime, endTime, attendee, hostEmail, hostName,
                                location, bookingUid, sequence, from)

\* lines 355-408 up to the await on fetch
handlerSend(e, trig, payload, startTime, endTime, attendee, hostEmail, hostName, location, bookingUid, sequence, enc) ==
    LET from == e.POSTMARK_FROM_EMAIL IN
    IF Falsy(from)
    THEN Respond(500, JsonBody("error", "Server configuration error", UndefTrig),
                 TRUE, trig, <<>>, bookingUid)
    ELSE LET h == dispatch(trig, payload, startTime, endTime, attendee, hostEmail, hostName,
                           location, bookingUid, sequence, from)
             ics == buildIcsString(h.ics, enc)
             builds == << [params |-> h.ics, enc |-> enc, threw |-> ics.threw, value |-> ics.value] >>
         IN  IF ics.threw
             THEN Respond(500, JsonBody("error", "Failed to process webhook", UndefTrig),
                          TRUE, trig, builds, bookingUid)
             ELSE LET call == sendPostmarkEmailCall(
                                  [from |-> h.mail.from, to |-> h.mail.to,
                                   subject |-> h.mail.subject, htmlBody |-> h.mail.htmlBody,
                                   icsContent |-> ics.value, icsMethod |-> h.mail.icsMethod],
                                  e.POSTMARK_SERVER_API_TOKEN)
                  IN  IF call.threw
                      THEN Respond(500, JsonBody("error", "Failed to process webhook", UndefTrig),
                                   TRUE, trig, builds, bookingUid)
                      ELSE Outcome("fetch", 0, JsonBody("none", "", UndefTrig), TRUE, trig, builds,
                                   call.message,
                                   [trigger |-> trig, uid |-> h.ics.uid,
                                    sequence |-> h.ics.sequence, carried |-> sequence,
                                    method |-> h.ics.method, status |-> h.ics.status],
                                   bookingUid)

handlerExtractNoHostCheck(e, trig, event, enc, uuid) ==
    LET payload == payloadOf(event) IN
    IF Falsy(payload.startTime) \/ Falsy(payload.endTime)
    THEN Respond(200, JsonBody("skipped", "missing start/end time", UndefTrig), TRUE, trig, <<>>, "")
    ELSE LET attendee == firstAttendeeOf(payload) IN
    IF attendeeEmailMissing(attendee)
    THEN Respond(200, JsonBody("skipped", "no attendee email", UndefTrig), TRUE, trig, <<>>, "")
    ELSE handlerSend(e, trig, payload, NewDate(payload.startTime), NewDate(payload.endTime),
                     attendee[1], hostEmailOf(payload), hostNameOf(payload), locationOf(payload),
                     bookingUidOf(payload, uuid), sequenceOf(payload), enc)

\* lines 316-353
handlerExtract(e, trig, event, enc, uuid) ==
    LET payload == payloadOf(event)
        hasStart == ~Falsy(payload.startTime)
        hasEnd == ~Falsy(payload.endTime)
    IN
    IF ~hasStart \/ ~hasEnd
    THEN Respond(200, JsonBody("skipped", "missing start/end time", UndefTrig), TRUE, trig, <<>>, "")
    ELSE LET attendee == firstAttendeeOf(payload) IN
    IF attendeeEmailMissing(attendee)
    THEN Respond(200, JsonBody("skipped", "no attendee email", UndefTrig), TRUE, trig, <<>>, "")
    ELSE LET hostEmail == hostEmailOf(payload)
             hostName == hostNameOf(payload)
    IN
    IF Falsy(hostEmail)
    THEN Respond(200, JsonBody("skipped", "no host email", UndefTrig), TRUE, trig, <<>>, "")
    ELSE handlerSend(e, trig, payload, NewDate(payload.startTime), NewDate(payload.endTime),
                     attendee[1], hostEmail, hostName, locationOf(payload),
                     bookingUidOf(payload, uuid), sequenceOf(payload), enc)

\* lines 289-314
handlerAfterRead(e, r, enc, uuid) ==
    IF signatureRejected(r.sig, e.CAL_WEBHOOK_SECRET, r.rawBody)
    THEN Respond(401, JsonBody("error", "Invalid signature", UndefTrig), FALSE, "none", <<>>, "")
    ELSE LET j == JSONparse(r.rawBody) IN
    IF j.threw
    THEN Respond(400, JsonBody("error", "Invalid JSON", UndefTrig), TRUE, "none", <<>>, "")
    ELSE IF j.isNull
    THEN \* event.triggerEvent on null: TypeError outside the try block
         Outcome("threw", 0, JsonBody("none", "", UndefTrig), TRUE, "none", <<>>, <<>>, NoInvite, "")
    ELSE LET trig == normalizeTrigger(rawTriggerOf(j.value)) IN
    IF trig = "unknown"
    THEN Respond(200, JsonBody("ignored", "", rawTriggerOf(j.value)), TRUE, trig, <<>>, "")
    ELSE handlerExtract(e, trig, j.value, enc, uuid)

(***************************************************************************)
(* Inputs: payloads, events, raw bodies, signature headers, requests.      *)
(***************************************************************************)
Ann == [name |-> "Ann", email |-> "ann@x.io"]
Bob == [name |-> Undef, email |-> "bob@x.io"]
Olga == [name |-> "Olga", email |-> "olga@x.io"]

EmptyPayload ==
    [title |-> Undef, description |-> Undef, startTime |-> Undef, endTime |-> Undef,
     attendees |-> <<>>, attendeesList |-> <<>>, organizer |-> <<>>,
     hostEmail |-> Undef, hostName |-> Undef, organizerName |-> Undef,
     location |-> Undef, meetingUrl |-> Undef, videoCallUrl |-> Undef, conferenceUrl |-> Undef,
     bookingUid |-> Undef, uid |-> Undef, bookingId |-> Undef,
     iCalSequence |-> NoNum, iCalUID |-> Undef]

BasePayload ==
    [EmptyPayload EXCEPT
        !.title = "Intro call",
        !.startTime = "2024-01-01T15:00:00Z",
        !.endTime = "2024-01-01T15:30:00Z",
        !.attendees = << <<Ann>> >>,
        !.hostEmail = "host@x.io",
        !.bookingUid = "bk-1"]

\* a second booking, used as the top level of an event that also nests a payload
DecoyPayload ==
    [EmptyPayload EXCEPT
        !.title = "Other",
        !.startTime = "2024-03-01T00:30:00+01:00",
        !.endTime = "2024-03-01T00:30:00+01:00",
        !.attendees = << <<Bob>> >>,
        !.hostEmail = "other@x.io",
        !.uid = "decoy-uid",
        !.iCalSequence = 1]

TimeValues == {Undef, "", "2024-01-01T15:00:00Z", "2024-01-01T10:00:00-05:00", "not-a-date"}
EndValues == {Undef, "2024-01-01T15:30:00Z", "not-a-date"}
AttendeeLists == { <<>>, << <<>> >>, << <<Ann>> >>, << <<[name |-> "Ann", email |-> Undef]>> >>,
                   << <<[name |-> "Ann", email |-> ""], Bob>> >> }
OrganizerValues == { <<>>, <<Olga>>, <<[name |-> Undef, email |-> Undef]>> }
SequenceValues == {NoNum} \cup (0..MaxSeq)
BookingIdValues == {Undef, "", "bk7", "num:7"}

TimePayloads ==
    { [BasePayload EXCEPT !.startTime = a, !.endTime = b] : a \in TimeValues, b \in EndValues }
AttendeePayloads ==
    { [BasePayload EXCEPT !.attendees = a, !.attendeesList = b] :
        a \in AttendeeLists, b \in { <<>>, << <<Bob>> >> } }
HostPayloads ==
    { [BasePayload EXCEPT !.hostEmail = a, !.organizer = b, !.hostName = c, !.organizerName = d] :
        a \in {Undef, "", "host@x.io"}, b \in OrganizerValues,
        c \in {Undef, "Hal"}, d \in {Undef, "Orla"} }
LocationPayloads ==
    { [BasePayload EXCEPT !.location = a, !.meetingUrl = b, !.videoCallUrl = c, !.conferenceUrl = d] :
        a \in {Undef, "Room 1"}, b \in {Undef, "https://meet"},
        c \in {Undef, "https://video"}, d \in {Undef, "https://conf"} }
IdPayloads ==
    { [BasePayload EXCEPT !.iCalUID = a, !.bookingUid = b, !.uid = c, !.bookingId = d] :
        a \in {Undef, "ical-1"}, b \in {Undef, "bk-1"}, c \in {Undef, "", "uid-1"},
        d \in BookingIdValues }
SequencePayloads ==
    { [BasePayload EXCEPT !.iCalSequence = a] : a \in SequenceValues }

Payloads ==
    TimePayloads \cup AttendeePayloads \cup HostPayloads \cup LocationPayloads
        \cup IdPayloads \cup SequencePayloads

BookingCreatedMixed == <<"B","o","o","k","i","n","g"," ","C","r","e","a","t","e","d">>
Ping == <<"P","I","N","G">>

Event(te, ev, ty, nested, top) ==
    [triggerEvent |-> te, event |-> ev, type |-> ty, payload |-> nested] @@ top

EmptyEvent == Event(UndefTrig, UndefTrig, UndefTrig, <<>>, EmptyPayload)

\* every combination of the three trigger keys, around the base payload
TriggerEvents ==
    { Event(te, ev, ty, n[1], n[2]) :
        te \in {UndefTrig, <<>>, BOOKING_CREATED, BookingCreatedMixed, BOOKING_RESCHEDULED, Ping},
        ev \in {UndefTrig, BOOKING_CANCELLED},
        ty \in {UndefTrig, BOOKING_RESCHEDULED, Ping},
        n \in { <<<<>>, BasePayload>>, <<<<>>, EmptyPayload>>, <<<<BasePayload>>, EmptyPayload>>,
                <<<<BasePayload>>, DecoyPayload>> } }

\* every payload, flat or nested, under each recognized trigger
PayloadEvents ==
    { Event(te, UndefTrig, UndefTrig, IF nested THEN <<p>> ELSE <<>>,
            IF nested THEN EmptyPayload ELSE p) :
        te \in {BOOKING_CREATED, BOOKING_RESCHEDULED, BOOKING_CANCELLED},
        p \in Payloads, nested \in BOOLEAN }

RawBodies ==
    { [kind |-> k, event |-> EmptyEvent] : k \in {"garbage", "null", "scalar"} }
        \cup { [kind |-> "object", event |-> ev] : ev \in TriggerEvents \cup PayloadEvents }

SenderSecret == "whsec"
TamperedBody == [kind |-> "garbage", event |-> EmptyEvent]

SignatureHeaders(rawBody) ==
    { <<>>,
      <<EmptySig>>,
      <<HmacSha256Hex(SenderSecret, rawBody)>>,
      <<HmacSha256Hex("other-secret", rawBody)>>,
      <<HmacSha256Hex(SenderSecret, TamperedBody)>>,
      <<[HmacSha256Hex(SenderSecret, rawBody) EXCEPT !.len = 32]>> }

\* POST with every body and header; another method with the bodies that are not
\* payload variations (the method is checked before anything is read)
Requests ==
    UNION { { [method |-> "POST", sig |-> h, rawBody |-> b] : h \in SignatureHeaders(b) } :
                b \in RawBodies }
    \cup
    UNION { { [method |-> "GET", sig |-> h, rawBody |-> b] : h \in SignatureHeaders(b) } :
                b \in { bb \in RawBodies : bb.event \notin PayloadEvents } }

Environments ==
    [CAL_WEBHOOK_SECRET : {Undef, SenderSecret},
     POSTMARK_FROM_EMAIL : {Undef, "bookings@x.io"},
     POSTMARK_SERVER_API_TOKEN : {Undef, "pm-token"}]

NoRequest == [method |-> "none", sig |-> <<>>, rawBody |-> TamperedBody]
NoProbe == [fn |-> "none", arg |-> <<>>, out |-> "none"]
FreshUuid(n) == "uuid-" \o ToString(n)

(***************************************************************************)
(* The handler as a state machine.  Its awaits separate three steps: the   *)
(* entry up to readRawBody, the body up to fetch, and the continuation     *)
(* after the provider has answered.                                        *)
(***************************************************************************)
Response(status, body) == [status |-> status, body |-> body]

handlerEntryNoSecretCheck(e, r) ==
    IF r.method # "POST"
    THEN [pc |-> "done", res |-> <<Response(405, JsonBody("error", "Method Not Allowed", UndefTrig))>>]
    ELSE [pc |-> "reading", res |-> <<>>]

\* lines 276-289: method and secret checks, then await readRawBody(req)
handlerEntry(e, r) ==
    IF r.method # "POST"
    THEN [pc |-> "done", res |-> <<Response(405, JsonBody("error", "Method Not Allowed", UndefTrig))>>]
    ELSE IF Falsy(e.CAL_WEBHOOK_SECRET)
    THEN [pc |-> "done", res |-> <<Response(500, JsonBody("error", "Server configuration error", UndefTrig))>>]
    ELSE [pc |-> "reading", res |-> <<>>]

Enter(r) ==
    LET o == handlerEntry(env, r) IN
    /\ req' = r
    /\ pc' = o.pc
    /\ res' = o.res
    /\ parsed' = FALSE
    /\ trigger' = "none"
    /\ built' = <<>>
    /\ fetches' = <<>>
    /\ nreq' = nreq + 1

\* a request arrives (any method, header and body)
Receive ==
    /\ pc = "idle"
    /\ nreq < MaxRequests
    /\ \E r \in Requests : Enter(r)
    /\ log' = <<>>
    /\ UNCHANGED <<env, uuids, stage, booking, probe, user, setup>>

AfterRead ==
    /\ pc = "reading"
    /\ \E enc \in {"ok", "error"} :
        LET uuid == FreshUuid(uuids + 1)
            o == handlerAfterRead(env, req, enc, uuid)
        IN  /\ pc' = CASE o.kind = "respond" -> "done"
                       [] o.kind = "threw" -> "threw"
                       [] OTHER -> "fetching"
            /\ res' = IF o.kind = "respond" THEN Append(res, Response(o.status, o.body)) ELSE res
            /\ parsed' = o.parsed
            /\ trigger' = o.trigger
            /\ built' = o.built
            /\ fetches' = IF o.kind = "fetch"
                          THEN << [message |-> o.message[1], invite |-> o.invite, response |-> <<>>] >>
                          ELSE <<>>
            /\ uuids' = IF o.bookingUid = uuid THEN uuids + 1 ELSE uuids
    /\ UNCHANGED <<env, req, nreq, stage, log, booking, probe, user, setup>>

\* lines 57-73 of sendPostmarkEmail, then lines 158, 404-408 of the handler
FetchReturns ==
    /\ pc = "fetching"
    /\ \E response \in ProviderResponses :
        LET r == sendPostmarkEmailReturn(response) IN
        /\ fetches' = [fetches EXCEPT ![1].response = <<response>>]
        /\ res' = IF r.threw
                  THEN Append(res, Response(500, JsonBody("error", "Failed to process webhook", UndefTrig)))
                  ELSE Append(res, Response(200, JsonBody("handled", trigger, UndefTrig)))
        /\ log' = IF response.kind = "http" /\ response.ok THEN Append(log, fetches[1].invite) ELSE log
    /\ pc' = "done"
    /\ UNCHANGED <<env, req, parsed, trigger, built, nreq, uuids, stage, booking, probe, user, setup>>

\* the handler's promise settles: the request and its locals are gone
Return ==
    /\ pc \in {"done", "threw"}
    /\ pc' = "idle"
    /\ req' = NoRequest
    /\ parsed' = FALSE
    /\ trigger' = "none"
    /\ built' = <<>>
    /\ fetches' = <<>>
    /\ res' = <<>>
    /\ UNCHANGED <<env, nreq, uuids, stage, log, booking, probe, user, setup>>

Init ==
    /\ env \in Environments
    /\ req = NoRequest
    /\ pc = "idle"
    /\ parsed = FALSE
    /\ trigger = "none"
    /\ built = <<>>
    /\ fetches = <<>>
    /\ res = <<>>
    /\ nreq = 0
    /\ uuids = 0
    /\ stage = 0
    /\ log = <<>>
    /\ booking = BasePayload
    /\ probe = NoProbe
    /\ user = <<>>
    /\ setup = <<>>

Next == Receive \/ AfterRead \/ FetchReturns \/ Return

Spec == Init /\ [][Next]_vars

(***************************************************************************)
(* Properties of one request.                                              *)
(***************************************************************************)
Recognized == {"BOOKING_CREATED", "BOOKING_RESCHEDULED", "BOOKING_CANCELLED"}

SecretConfigured == ~Falsy(env.CAL_WEBHOOK_SECRET)
Posted == req.method = "POST"
Settled == pc \in {"done", "threw", "fetching"}

\* the header carries exactly the hex HMAC of the raw body under the secret
SignatureMatches ==
    /\ req.sig # <<>>
    /\ req.sig[1].len = DigestLen
    /\ req.sig[1].key = env.CAL_WEBHOOK_SECRET
    /\ req.sig[1].msg = <<req.rawBody>>

Authenticated == Posted /\ SecretConfigured /\ SignatureMatches

Answered(status) == pc = "done" /\ Len(res) = 1 /\ res[1].status = status

RequestPayload == payloadOf(req.rawBody.event)

MissingRequiredField ==
    \/ Falsy(RequestPayload.startTime)
    \/ Falsy(RequestPayload.endTime)
    \/ attendeeEmailMissing(firstAttendeeOf(RequestPayload))
    \/ Falsy(hostEmailOf(RequestPayload))

\* C1: on a POST with the secret configured, a signature header that is absent,
\* empty or different from the hex HMAC of the raw body is answered 401 whatever
\* the body is, and the body is not parsed, no invite is built and no email
\* call is made.
C1_BadSignatureIs401 ==
    (Posted /\ SecretConfigured /\ ~SignatureMatches)
        => /\ ~parsed
           /\ built = <<>>
           /\ fetches = <<>>
           /\ pc \in {"reading", "done"}
           /\ pc = "done" => Answered(401)

\* a well-formed BOOKING_CREATED body under a digest of the right length but the
\* wrong key has been answered
C1_Witness ==
    /\ pc = "done" /\ Posted /\ SecretConfigured
    /\ req.sig # <<>> /\ req.sig[1].len = DigestLen /\ req.sig[1].key # env.CAL_WEBHOOK_SECRET
    /\ req.rawBody.kind = "object"
    /\ req.rawBody.event.triggerEvent = BOOKING_CREATED
    /\ ~MissingRequiredField
    /\ res[1].status = 401

\* C4: an authenticated request with a recognized trigger whose start time, end
\* time, first-attendee email or host email is missing is answered 200 with a
\* "skipped" reason; no invite is built and no email call is made.
C4_MissingFieldIsSkipped200 ==
    (Settled /\ Authenticated /\ trigger \in Recognized /\ MissingRequiredField)
        => /\ Answered(200)
           /\ res[1].body.kind = "skipped"
           /\ res[1].body.detail \in {"missing start/end time", "no attendee email", "no host email"}
           /\ built = <<>>
           /\ fetches = <<>>

\* only the host email is missing, and the sender address is not configured
C4_Witness ==
    /\ pc = "done" /\ Authenticated /\ trigger = "BOOKING_RESCHEDULED"
    /\ ~Falsy(RequestPayload.startTime) /\ ~Falsy(RequestPayload.endTime)
    /\ ~attendeeEmailMissing(firstAttendeeOf(RequestPayload))
    /\ Falsy(hostEmailOf(RequestPayload))
    /\ Falsy(env.POSTMARK_FROM_EMAIL)
    /\ res[1].body.detail = "no host email"

\* C5: a request with a valid signature whose raw body is not JSON is answered
\* 400 and makes no email call.
C5_InvalidJsonIs400 ==
    (Settled /\ Authenticated /\ req.rawBody.kind = "garbage")
        => Answered(400) /\ fetches = <<>> /\ built = <<>>

C5_Witness ==
    /\ pc = "done" /\ Authenticated /\ req.rawBody.kind = "garbage"
    /\ parsed /\ res[1].body.detail = "Invalid JSON"

\* C7: an authenticated, JSON-parseable request whose trigger is unknown is
\* answered 200 and nothing else happens, whatever its fields are and whether or
\* not the sender address and the email token are configured.
UnknownTriggerValues == {UndefTrig, <<>>, Ping}

UnknownTriggerRequest ==
    /\ req.rawBody.kind \in {"object", "scalar"}
    /\ req.rawBody.event.triggerEvent \in UnknownTriggerValues
    /\ req.rawBody.event.event \in UnknownTriggerValues
    /\ req.rawBody.event.type \in UnknownTriggerValues

C7_UnknownTriggerIs200NoAction ==
    (Settled /\ Authenticated /\ UnknownTriggerRequest)
        => /\ Answered(200)
           /\ res[1].body.kind = "ignored"
           /\ trigger = "unknown"
           /\ built = <<>>
           /\ fetches = <<>>

\* an unrecognized trigger over a complete payload, with nothing configured for email
C7_Witness ==
    /\ pc = "done" /\ Authenticated /\ UnknownTriggerRequest
    /\ req.rawBody.event.type = Ping
    /\ ~MissingRequiredField
    /\ Falsy(env.POSTMARK_FROM_EMAIL) /\ Falsy(env.POSTMARK_SERVER_API_TOKEN)
    /\ res[1].status = 200

\* C8: a 200 answer carrying the handled trigger is written only after exactly
\* one provider call of the request has returned a success; when the invite build
\* throws, the provider rejects the message or the token is missing at the send,
\* the answer is 500.
ProviderAccepted ==
    /\ Len(fetches) = 1
    /\ fetches[1].response # <<>>
    /\ fetches[1].response[1].kind = "http"
    /\ fetches[1].response[1].ok

DownstreamFailure ==
    \/ built # <<>> /\ built[1].threw
    \/ built # <<>> /\ Falsy(env.POSTMARK_SERVER_API_TOKEN)
    \/ fetches # <<>> /\ fetches[1].response # <<>> /\ ~fetches[1].response[1].ok

C8_HandledOnlyAfterOneAcceptedEmail ==
    /\ pc = "fetching" => res = <<>>
    /\ \A i \in 1..Len(res) :
          res[i].body.kind = "handled"
              => /\ Len(res) = 1 /\ res[i].status = 200
                 /\ res[i].body.detail = trigger /\ trigger \in Recognized
                 /\ ProviderAccepted
    /\ (pc = "done" /\ DownstreamFailure) => Answered(500)

C8_Witness ==
    /\ pc = "done" /\ Authenticated
    /\ fetches # <<>> /\ fetches[1].response = << [kind |-> "http", ok |-> FALSE, status |-> 422,
                                                   Message |-> "Invalid 'From' address"] >>
    /\ res[1].status = 500

\* C9 as stated: with any of the three configuration values absent, a POST is
\* answered 500.
C9_Original_AnyMissingConfigIs500 ==
    (pc = "done" /\ Posted /\
     (Falsy(env.CAL_WEBHOOK_SECRET) \/ Falsy(env.POSTMARK_FROM_EMAIL)
        \/ Falsy(env.POSTMARK_SERVER_API_TOKEN)))
        => Answered(500)

\* C9 as amended: without the webhook secret every POST is answered 500; without
\* the sender address or the email token no email call is made and no POST is
\* answered 200 as handled: a request that passes the signature, JSON, trigger
\* and required-field checks is answered 500, and one that fails an earlier
\* check keeps the answer of that check (401, 400, 200 ignored or skipped).
C9_MissingConfigIs500WhereChecked ==
    /\ (pc = "done" /\ Posted /\ ~SecretConfigured)
          => Answered(500) /\ ~parsed /\ fetches = <<>>
    /\ (Posted /\ SecretConfigured /\
        (Falsy(env.POSTMARK_FROM_EMAIL) \/ Falsy(env.POSTMARK_SERVER_API_TOKEN)))
          => /\ fetches = <<>>
             /\ \A i \in 1..Len(res) : res[i].body.kind # "handled"
             /\ (pc = "done" /\ trigger \in Recognized /\ ~MissingRequiredField)
                   => Answered(500)
             /\ (pc = "done" /\ res[1].status = 200)
                   => res[1].body.kind \in {"ignored", "skipped"}

\* a complete, authenticated BOOKING_CREATED delivery with only the token missing
C9_Witness ==
    /\ pc = "done" /\ Authenticated /\ trigger = "BOOKING_CREATED" /\ ~MissingRequiredField
    /\ ~Falsy(env.POSTMARK_FROM_EMAIL) /\ Falsy(env.POSTMARK_SERVER_API_TOKEN)
    /\ built # <<>> /\ ~built[1].threw
    /\ res[1].status = 500

CarriedSequence ==
    IF RequestPayload.iCalSequence = NoNum THEN 0 ELSE RequestPayload.iCalSequence

\* C11: the created handler builds its invite with the sequence of the payload
\* unmodified, the rescheduled and the cancelled handlers each with that sequence
\* plus exactly one, and a payload that carries no sequence counts as sequence 0;
\* the document encoded and the invite sent carry the same number.
C11_HandlerSequence ==
    /\ \A i \in 1..Len(built) :
          /\ trigger \in Recognized
          /\ built[i].params.sequence =
                IF trigger = "BOOKING_CREATED" THEN CarriedSequence ELSE CarriedSequence + 1
          /\ ~built[i].threw => built[i].value[1].sequence = built[i].params.sequence
    /\ \A i \in 1..Len(fetches) :
          fetches[i].invite.sequence = built[1].params.sequence

\* a cancellation whose payload carries no sequence has been sent with sequence 1
C11_Witness ==
    /\ pc = "fetching" /\ trigger = "BOOKING_CANCELLED"
    /\ RequestPayload.iCalSequence = NoNum
    /\ built[1].params.sequence = 1
    /\ fetches[1].message.Attachments[1].Content.base64[1].sequence = 1

\* C12: in every invite a handler emits the method matches the lifecycle status
\* (CANCEL exactly with CANCELLED, REQUEST exactly with CONFIRMED, CANCELLED
\* exactly for the cancelled trigger), the encoded document carries that method
\* and status, and the method parameter of the attachment's MIME type is the
\* method of the invite the attachment carries.
C12_MethodMatchesStatus ==
    /\ \A i \in 1..Len(built) :
          LET p == built[i].params IN
          /\ p.method \in {"REQUEST", "CANCEL"}
          /\ p.status \in {"CONFIRMED", "CANCELLED"}
          /\ p.method = "CANCEL" <=> p.status = "CANCELLED"
          /\ p.method = "REQUEST" <=> p.status = "CONFIRMED"
          /\ p.status = "CANCELLED" <=> trigger = "BOOKING_CANCELLED"
          /\ ~built[i].threw
                => built[i].value[1].method = p.method /\ built[i].value[1].status = p.status
    /\ \A i \in 1..Len(fetches) :
          LET att == fetches[i].message.Attachments[1] IN
          /\ att.ContentType.type = "text/calendar"
          /\ att.ContentType.method = att.Content.base64[1].method
          /\ att.ContentType.method = built[1].params.method

\* a cancellation invite is on its way to the provider
C12_Witness ==
    /\ pc = "fetching" /\ trigger = "BOOKING_CANCELLED"
    /\ built[1].params.status = "CANCELLED"
    /\ fetches[1].message.Attachments[1].ContentType.method = "CANCEL"
    /\ fetches[1].message.Attachments[1].Content.base64[1].status = "CANCELLED"

\* C16: for every request (any method, header and raw body, JSON values that
\* are not objects included) the handler ends having sent exactly one response,
\* whose status is one of 200, 400, 401, 405, 500, and 405 exactly for a method
\* other than POST.
C16_ExactlyOneResponse ==
    /\ Len(res) <= 1
    /\ pc \in {"done", "threw"}
          => /\ Len(res) = 1
             /\ res[1].status \in {200, 400, 401, 405, 500}
             /\ res[1].status = 405 <=> ~Posted

\* the first candidate that is present, d when none is; a string is present
\* unless it is absent or empty
RECURSIVE FirstPresent(_, _)
FirstPresent(cands, d) ==
    IF cands = <<>> THEN d
    ELSE IF ~Falsy(Head(cands)) THEN Head(cands)
    ELSE FirstPresent(Tail(cands), d)

\* the same for trigger values, and for objects and lists (present whenever
\* given, an empty list included)
RECURSIVE FirstPresentTrig(_)
FirstPresentTrig(cands) ==
    IF Len(cands) = 1 THEN Head(cands)
    ELSE IF ~FalsyTrig(Head(cands)) THEN Head(cands)
    ELSE FirstPresentTrig(Tail(cands))

RECURSIVE FirstGiven(_, _)
FirstGiven(cands, d) ==
    IF cands = <<>> THEN d
    ELSE IF Head(cands) # <<>> THEN Head(cands)[1]
    ELSE FirstGiven(Tail(cands), d)

RequestEvent == req.rawBody.event

\* the booking fields come from the nested payload when one is given, else from
\* the top level of the event
BookingSource == FirstGiven(<<RequestEvent.payload>>, RequestEvent)

AttendeeList == FirstGiven(<<BookingSource.attendees, BookingSource.attendeesList>>, <<>>)

\* an optional attendee list that carries a usable value: it is given, not
\* empty, and its first attendee has an email
UsableAttendees(list) == list # <<>> /\ list[1] # <<>> /\ ~Falsy(list[1][1].email)

\* C17 as stated, for the attendee list: attendeesList is used whenever
\* attendees carries no usable value, so a request complete in every other field
\* whose attendeesList names an attendee with an email is not skipped for want of
\* an attendee email.
C17_Original_LaterWheneverEarlierUnusable ==
    (/\ pc = "done" /\ Authenticated /\ trigger \in Recognized
     /\ ~Falsy(BookingSource.startTime) /\ ~Falsy(BookingSource.endTime)
     /\ ~UsableAttendees(BookingSource.attendees)
     /\ UsableAttendees(BookingSource.attendeesList))
        => ~(res[1].body.kind = "skipped" /\ res[1].body.detail = "no attendee email")

\* C17 as amended: each logical field is extracted by an ordered list of candidate lookups
\* that stops at the first present value (a string that is neither absent nor
\* empty; any object or list): the trigger from triggerEvent, event, type; the
\* booking fields from the nested payload, else the top level; the attendee list
\* from attendees, then attendeesList; the host email from hostEmail, then
\* organizer.email; the location from location, meetingUrl, videoCallUrl,
\* conferenceUrl; a later candidate is used exactly when no earlier one is
\* present, so an attendees list that is given but empty, or whose first attendee
\* has no email, is not replaced by attendeesList.
C17_OrderedCandidateLookups ==
    /\ (parsed /\ Settled /\ req.rawBody.kind \in {"object", "scalar"})
          => trigger = normalizeTrigger(FirstPresentTrig(
                          <<RequestEvent.triggerEvent, RequestEvent.event, RequestEvent.type>>))
    /\ (pc = "done" /\ res[1].body.kind = "skipped")
          => /\ res[1].body.detail = "no attendee email"
                  => (AttendeeList = <<>> \/ Falsy(AttendeeList[1].email))
             /\ res[1].body.detail = "no host email"
                  => Falsy(FirstPresent(<<BookingSource.hostEmail, organizerEmailOf(BookingSource)>>, Undef))
    /\ \A i \in 1..Len(built) :
          LET q == built[i].params IN
          /\ q.start = NewDate(BookingSource.startTime)
          /\ q.end = NewDate(BookingSource.endTime)
          /\ q.attendee = AttendeeList[1]
          /\ q.organizer.email
                = FirstPresent(<<BookingSource.hostEmail, organizerEmailOf(BookingSource)>>, Undef)
          /\ q.location
                = FirstPresent(<<BookingSource.location, BookingSource.meetingUrl,
                                 BookingSource.videoCallUrl, BookingSource.conferenceUrl>>, "")

\* an invite has been built from a nested payload whose location came from the
\* last candidate, conferenceUrl
C17_Witness ==
    /\ built # <<>> /\ RequestEvent.payload # <<>>
    /\ Falsy(BookingSource.location) /\ Falsy(BookingSource.meetingUrl)
    /\ Falsy(BookingSource.videoCallUrl)
    /\ built[1].params.location = "https://conf"

\* the payload carries none of the four identifiers
NoIdentifier(p) ==
    Falsy(p.iCalUID) /\ Falsy(p.bookingUid) /\ Falsy(p.uid) /\ Falsy(p.bookingId)

\* C21: the uid of the invite is the first of iCalUID, bookingUid, uid and
\* bookingId (as a string) that the payload carries, and when the payload carries
\* none of the four it is a freshly generated random UUID, so that no two
\* bookings without identifiers get the same uid.
C21_UidOrderThenFreshUuid ==
    \A i \in 1..Len(built) :
        built[i].params.uid =
            IF ~Falsy(BookingSource.iCalUID) THEN BookingSource.iCalUID
            ELSE IF ~Falsy(BookingSource.bookingUid) THEN BookingSource.bookingUid
            ELSE IF ~Falsy(BookingSource.uid) THEN BookingSource.uid
            ELSE IF ~NoIdentifier(BookingSource) THEN StringOf(BookingSource.bookingId)
            ELSE FreshUuid(uuids)

(***************************************************************************)
(* The lifecycle of one booking: the sender delivers created, rescheduled  *)
(* and cancelled in that order, each delivery signed and carrying the      *)
(* sender's record of the booking.  The sender keeps its own iCalSequence  *)
(* (or none): between deliveries it leaves it or raises it by one.         *)
(***************************************************************************)
Rescheduled == <<"b","o","o","k","i","n","g",".","r","e","s","c","h","e","d","u","l","e","d">>
Cancelled == <<"C","a","n","c","e","l","l","e","d">>

StageTriggers ==
    << {BOOKING_CREATED, BookingCreatedMixed},
       {BOOKING_RESCHEDULED, Rescheduled},
       {BOOKING_CANCELLED, Cancelled} >>

LifecycleBookings ==
    { [BasePayload EXCEPT !.iCalUID = id[1], !.bookingUid = id[2], !.uid = id[3],
                          !.bookingId = id[4], !.iCalSequence = sq] :
        id \in { <<"ical-1", "bk-1", Undef, Undef>>,
                 <<Undef, "bk-1", "uid-1", "num:7">>,
                 <<Undef, Undef, "", "bk7">>,
                 <<Undef, Undef, Undef, Undef>>,
                 <<Undef, Undef, Undef, "">> },
        sq \in SequenceValues }

ConfiguredEnv ==
    [CAL_WEBHOOK_SECRET |-> SenderSecret,
     POSTMARK_FROM_EMAIL |-> "bookings@x.io",
     POSTMARK_SERVER_API_TOKEN |-> "pm-token"]

SenderRecords(b) ==
    IF b.iCalSequence # NoNum /\ b.iCalSequence < MaxSeq
    THEN { b, [b EXCEPT !.iCalSequence = @ + 1] }
    ELSE { b }

Deliver ==
    /\ pc = "idle"
    /\ stage \in 1..3
    /\ \E te \in StageTriggers[stage], nested \in BOOLEAN, b \in SenderRecords(booking) :
        LET ev == Event(te, UndefTrig, UndefTrig, IF nested THEN <<b>> ELSE <<>>,
                        IF nested THEN EmptyPayload ELSE b)
            body == [kind |-> "object", event |-> ev]
        IN  /\ Enter([method |-> "POST", sig |-> <<HmacSha256Hex(SenderSecret, body)>>, rawBody |-> body])
            /\ booking' = b
    /\ stage' = stage + 1
    /\ UNCHANGED <<env, uuids, log, probe, user, setup>>

LifecycleInit ==
    /\ env = ConfiguredEnv
    /\ req = NoRequest
    /\ pc = "idle"
    /\ parsed = FALSE
    /\ trigger = "none"
    /\ built = <<>>
    /\ fetches = <<>>
    /\ res = <<>>
    /\ nreq = 0
    /\ uuids = 0
    /\ stage = 1
    /\ log = <<>>
    /\ booking \in LifecycleBookings
    /\ probe = NoProbe
    /\ user = <<>>
    /\ setup = <<>>

LifecycleNext == Deliver \/ AfterRead \/ FetchReturns \/ Return

LifecycleSpec == LifecycleInit /\ [][LifecycleNext]_vars

\* C2: for one booking, the reschedule invite carries N+1 where N is the sequence
\* known at the reschedule, the cancellation invite that follows carries N+2, and
\* the sequences of the invites emitted for the booking strictly increase.
C2_SequencesStrictlyIncrease ==
    \A i \in 1..Len(log), j \in 1..Len(log) :
        /\ i < j => log[i].sequence < log[j].sequence
        /\ (j = i + 1 /\ log[i].trigger = "BOOKING_RESCHEDULED" /\ log[j].trigger = "BOOKING_CANCELLED")
              => /\ log[i].sequence = log[i].carried + 1
                 /\ log[j].sequence = log[i].carried + 2

OnlyEmptyBookingId(b) ==
    Falsy(b.iCalUID) /\ Falsy(b.bookingUid) /\ Falsy(b.uid) /\ b.bookingId = ""

Fragments ==
    { <<"c","r","e","a","t","e","d">>, <<"R","e","s","c","h","e","d","u","l","e","d">>,
      CANCEL, <<"c","a","n","c","e","l","l","e","d">>, <<"B","O","O","K","I","N","G">>,
      <<" ">>, <<"_">>, <<"c","r","e","a","t">>, <<"e","d">>, <<"p","i","n","g">> }

RECURSIVE Concats(_)
Concats(n) ==
    IF n = 0 THEN { <<>> }
    ELSE LET shorter == Concats(n - 1) IN
         shorter \cup { s \o f : s \in shorter, f \in Fragments }

TriggerInputs == {UndefTrig} \cup Concats(MaxFrags)

TriggerInit ==
    /\ env = ConfiguredEnv
    /\ req = NoRequest
    /\ pc = "idle"
    /\ parsed = FALSE
    /\ trigger = "none"
    /\ built = <<>>
    /\ fetches = <<>>
    /\ res = <<>>
    /\ nreq = 0
    /\ uuids = 0
    /\ stage = 0
    /\ log = <<>>
    /\ booking = BasePayload
    /\ probe \in { [fn |-> "normalizeTrigger", arg |-> t, out |-> "pending"] : t \in TriggerInputs }
    /\ user = <<>>
    /\ setup = <<>>

ApplyNormalizeTrigger ==
    /\ probe.fn = "normalizeTrigger"
    /\ probe.out = "pending"
    /\ probe' = [probe EXCEPT !.out = normalizeTrigger(probe.arg)]
    /\ UNCHANGED <<env, req, pc, parsed, trigger, built, fetches, res, nreq, uuids, stage, log, booking, user, setup>>

TriggerNext == ApplyNormalizeTrigger

TriggerSpec == TriggerInit /\ [][TriggerNext]_vars

Contains(t, kw) == t # UndefTrig /\ includes(toUpperCase(t), kw)

\* C6 as stated: every value containing CREATED maps to created, every value
\* containing RESCHEDULED to rescheduled, every value containing CANCEL to
\* cancelled, every other value to unknown (letters compared without case).
C6_Original_EveryKeywordMaps ==
    probe.out # "pending" =>
        /\ Contains(probe.arg, CREATED) => probe.out = "BOOKING_CREATED"
        /\ Contains(probe.arg, RESCHEDULED) => probe.out = "BOOKING_RESCHEDULED"
        /\ Contains(probe.arg, CANCEL) => probe.out = "BOOKING_CANCELLED"
        /\ (~Contains(probe.arg, CREATED) /\ ~Contains(probe.arg, RESCHEDULED)
              /\ ~Contains(probe.arg, CANCEL)) => probe.out = "unknown"

\* C6 as amended: the keywords are tested in the order CREATED, RESCHEDULED,
\* CANCEL, without regard to case: a value containing CREATED maps to created, one
\* containing RESCHEDULED but not CREATED to rescheduled, one containing CANCEL
\* but neither of the others to cancelled, every other value (absent and empty
\* included) to unknown; whitespace inside a keyword separates it.
C6_FirstKeywordInOrder ==
    probe.out # "pending" =>
        probe.out =
            IF Contains(probe.arg, CREATED) THEN "BOOKING_CREATED"
            ELSE IF Contains(probe.arg, RESCHEDULED) THEN "BOOKING_RESCHEDULED"
            ELSE IF Contains(probe.arg, CANCEL) THEN "BOOKING_CANCELLED"
            ELSE "unknown"

\* a lower-case value holding two keywords has been classified by the first
C6_Witness ==
    /\ probe.arg = <<"c","a","n","c","e","l","l","e","d">> \o <<"c","r","e","a","t","e","d">>
    /\ probe.out = "BOOKING_CREATED"

(***************************************************************************)
(* buildIcsString on its own (ics-builder.ts:14-51): the parameters range  *)
(* over every event status of the ics library, both methods, instants      *)
(* written with and without an offset, and both verdicts of the encoder.   *)
(***************************************************************************)
EventStatuses == {"TENTATIVE", "CONFIRMED", "CANCELLED"}

BuilderInstants == { NewDate(iso) : iso \in DOMAIN IsoStrings } \cup { NewDate("not-a-date") }

WebhookIcsParams ==
    { [uid |-> "bk-1", title |-> "Intro call", description |-> Undef,
       start |-> a, end |-> b,
       organizer |-> [name |-> n, email |-> "host@x.io"],
       attendee |-> att, location |-> "",
       sequence |-> sq, status |-> st, method |-> m] :
        a \in BuilderInstants,
        b \in { NewDate("2024-01-01T15:30:00Z"), NewDate("2024-03-01T00:30:00+01:00") },
        n \in {Undef, "Hal"}, att \in {Ann, Bob}, sq \in {NoNum, MaxSeq},
        st \in EventStatuses, m \in {"REQUEST", "CANCEL"} }

BuilderInit ==
    /\ env = ConfiguredEnv
    /\ req = NoRequest
    /\ pc = "idle"
    /\ parsed = FALSE
    /\ trigger = "none"
    /\ built = <<>>
    /\ fetches = <<>>
    /\ res = <<>>
    /\ nreq = 0
    /\ uuids = 0
    /\ stage = 0
    /\ log = <<>>
    /\ booking = BasePayload
    /\ probe \in { [fn |-> "buildIcsString", arg |-> [params |-> p, enc |-> e], out |-> <<>>] :
                      p \in WebhookIcsParams, e \in {"ok", "error"} }
    /\ user = <<>>
    /\ setup = <<>>

ApplyBuildIcsString ==
    /\ probe.fn = "buildIcsString"
    /\ probe.out = <<>>
    /\ probe' = [probe EXCEPT !.out = <<buildIcsString(probe.arg.params, probe.arg.enc)>>]
    /\ UNCHANGED <<env, req, pc, parsed, trigger, built, fetches, res, nreq, uuids, stage, log, booking, user, setup>>

BuilderNext == ApplyBuildIcsString

BuilderSpec == BuilderInit /\ [][BuilderNext]_vars

\* buildIcsString has returned a document
BuilderReturned == probe.fn = "buildIcsString" /\ probe.out # <<>> /\ ~probe.out[1].threw

\* C13: buildIcsString derives the attendee's participation and the busy status
\* from the lifecycle status alone: CANCELLED gives DECLINED and FREE, every other
\* status gives ACCEPTED and BUSY, whatever the method is.
C13_PartstatAndBusyFromStatus ==
    BuilderReturned =>
        LET doc == probe.out[1].value[1]
            cancelled == probe.arg.params.status = "CANCELLED"
        IN  /\ Len(doc.attendees) = 1
            /\ doc.attendees[1].partstat = IF cancelled THEN "DECLINED" ELSE "ACCEPTED"
            /\ doc.busyStatus = IF cancelled THEN "FREE" ELSE "BUSY"

\* a tentative event with method CANCEL has been encoded as accepted and busy
C13_Witness ==
    /\ BuilderReturned
    /\ probe.arg.params.status = "TENTATIVE" /\ probe.arg.params.method = "CANCEL"
    /\ probe.out[1].value[1].attendees[1].partstat = "ACCEPTED"
    /\ probe.out[1].value[1].busyStatus = "BUSY"

\* minutes since the epoch of the civil components a, read as UTC
InstantOfUtc(a) == (DaysFromCivil(a[1], a[2], a[3]) * 24 + a[4]) * 60 + a[5]

\* a is <<year, month from 1, day, hour, minute>> of the instant t in UTC
UtcComponentsOf(a, t) ==
    /\ Len(a) = 5
    /\ a[2] \in 1..12 /\ a[3] \in 1..31 /\ a[4] \in 0..23 /\ a[5] \in 0..59
    /\ InstantOfUtc(a) = t

\* C18: buildIcsString encodes start and end as the UTC civil components (year,
\* month counted from 1, day, hour, minute) of the given instants and tags them
\* as UTC, whatever offset the instant was written with; 2024-01-01T15:00:00Z is
\* encoded as (2024,1,1,15,0).
C18_UtcCivilComponents ==
    BuilderReturned =>
        LET doc == probe.out[1].value[1]
            p == probe.arg.params
        IN  /\ doc.startInputType = "utc"
            /\ UtcComponentsOf(doc.start, p.start.t)
            /\ UtcComponentsOf(doc.end, p.end.t)
            /\ p.start = NewDate("2024-01-01T15:00:00Z") => doc.start = <<2024, 1, 1, 15, 0>>
            /\ p.start = NewDate("2024-01-01T10:00:00-05:00") => doc.start = <<2024, 1, 1, 15, 0>>

\* an instant written as 00:30 on 1 March at +01:00 has been encoded as 23:30 on
\* 29 February
C18_Witness ==
    /\ BuilderReturned
    /\ probe.arg.params.start = NewDate("2024-03-01T00:30:00+01:00")
    /\ probe.out[1].value[1].start = <<2024, 2, 29, 23, 30>>
    /\ probe.out[1].value[1].startInputType = "utc"

(***************************************************************************)
(* sendPostmarkEmail on its own (part_001:24-74): one invocation, from the *)
(* token check to the await on fetch, and from the provider's answer to    *)
(* the return or the throw.                                                *)
(***************************************************************************)
SampleDocuments ==
    { buildIcsString(p, "ok").value :
        p \in { q \in WebhookIcsParams :
                  /\ q.start = NewDate("2024-01-01T15:00:00Z")
                  /\ q.end = NewDate("2024-01-01T15:30:00Z")
                  /\ q.organizer.name = Undef /\ q.attendee = Ann /\ q.sequence = NoNum
                  /\ q.status # "TENTATIVE" } }

SendEmailBase ==
    [from |-> "bookings@x.io", to |-> "ann@x.io",
     subject |-> <<"Confirmed: ", "Intro call">>,
     htmlBody |-> [headline |-> "Your meeting is confirmed", title |-> "Intro call", with |-> "host@x.io"]]

SendEmailParams ==
    { SendEmailBase @@ [icsMethod |-> m] : m \in {Undef, "REQUEST", "CANCEL"} }
    \cup { SendEmailBase @@ [icsMethod |-> m, icsContent |-> doc] :
              m \in {Undef, "REQUEST", "CANCEL"}, doc \in {EmptyString} \cup SampleDocuments }

MailInit ==
    /\ env \in { [ConfiguredEnv EXCEPT !.POSTMARK_SERVER_API_TOKEN = t] : t \in {Undef, "", "pm-token"} }
    /\ req = NoRequest
    /\ pc = "idle"
    /\ parsed = FALSE
    /\ trigger = "none"
    /\ built = <<>>
    /\ fetches = <<>>
    /\ res = <<>>
    /\ nreq = 0
    /\ uuids = 0
    /\ stage = 0
    /\ log = <<>>
    /\ booking = BasePayload
    /\ probe \in { [fn |-> "sendPostmarkEmail", arg |-> p, out |-> <<>>] : p \in SendEmailParams }
    /\ user = <<>>
    /\ setup = <<>>

\* lines 24-65: the token check, the message, the call of fetch
SendPostmarkEmailStart ==
    /\ probe.fn = "sendPostmarkEmail"
    /\ pc = "idle"
    /\ LET call == sendPostmarkEmailCall(probe.arg, env.POSTMARK_SERVER_API_TOKEN) IN
       IF call.threw
       THEN /\ pc' = "done"
            /\ probe' = [probe EXCEPT !.out = << [threw |-> TRUE,
                                                  error |-> [status |-> 0, message |-> "Missing POSTMARK_SERVER_API_TOKEN environment variable"]] >>]
            /\ fetches' = fetches
       ELSE /\ pc' = "fetching"
            /\ probe' = probe
            /\ fetches' = Append(fetches, [message |-> call.message[1], invite |-> NoInvite, response |-> <<>>])
    /\ UNCHANGED <<env, req, parsed, trigger, built, res, nreq, uuids, stage, log, booking, user, setup>>

\* lines 65-73: fetch settles, the function returns the data or throws
SendPostmarkEmailSettle ==
    /\ probe.fn = "sendPostmarkEmail"
    /\ pc = "fetching"
    /\ \E response \in ProviderResponses :
          /\ fetches' = [fetches EXCEPT ![Len(fetches)].response = <<response>>]
          /\ probe' = [probe EXCEPT !.out = <<sendPostmarkEmailReturn(response)>>]
    /\ pc' = "done"
    /\ UNCHANGED <<env, req, parsed, trigger, built, res, nreq, uuids, stage, log, booking, user, setup>>

MailNext == SendPostmarkEmailStart \/ SendPostmarkEmailSettle

MailSpec == MailInit /\ [][MailNext]_vars

MailInvoked == probe.fn = "sendPostmarkEmail" /\ pc # "idle"
MailSettled == probe.fn = "sendPostmarkEmail" /\ pc = "done"
TokenConfigured == ~Falsy(env.POSTMARK_SERVER_API_TOKEN)

\* the provider's answer to the one call decides the result: only a success
\* status returns, a non-success status throws with its code and message
ResultFollowsAnswer ==
    \A i \in 1..Len(fetches) :
        fetches[i].response # <<>> =>
            LET a == fetches[i].response[1] IN
            /\ (a.kind = "http" /\ a.ok) <=> ~probe.out[1].threw
            /\ (a.kind = "http" /\ ~a.ok)
                  => /\ probe.out[1].error.status = a.status
                     /\ probe.out[1].error.message = IF a.Message = Undef THEN "{}" ELSE a.Message

\* C14 as stated: every invocation makes exactly one provider call, and a
\* non-success status makes it fail with the provider's status code and message.
C14_Original_ExactlyOneCall ==
    /\ Len(fetches) <= 1
    /\ MailSettled => Len(fetches) = 1 /\ ResultFollowsAnswer

\* C14 as amended: an invocation makes at most one provider call and never
\* repeats it: exactly one when the API token is configured, none when it is
\* missing or empty (the invocation then throws before any call); a non-success
\* HTTP status makes the invocation throw an error carrying the provider's status
\* code and message, and only a success status lets it return.
C14_AtMostOneCallNoRetry ==
    /\ Len(fetches) <= 1
    /\ MailInvoked => (Len(fetches) = 1 <=> TokenConfigured)
    /\ MailSettled
          => /\ ~TokenConfigured => probe.out[1].threw
             /\ fetches # <<>> => fetches[1].response # <<>>
             /\ ResultFollowsAnswer

\* the provider answered 422 to the one call and the invocation threw with it
C14_Witness ==
    /\ MailSettled /\ TokenConfigured
    /\ Len(fetches) = 1 /\ fetches[1].response[1].status = 422
    /\ probe.out[1].threw /\ probe.out[1].error.status = 422
    /\ probe.out[1].error.message = "Invalid 'From' address"

\* C15: the message carries a calendar attachment exactly when a (non-empty)
\* calendar document is given: one attachment named invite.ics whose content is
\* the base64 of the document and whose MIME type is text/calendar with the
\* given method (REQUEST when none is given); without a document the message has
\* no attachment.
C15_AttachmentIffDocument ==
    probe.fn = "sendPostmarkEmail" =>
        \A i \in 1..Len(fetches) :
            LET a == fetches[i].message.Attachments
                p == probe.arg
            IN  IF "icsContent" \in DOMAIN p /\ p.icsContent # EmptyString
                THEN /\ Len(a) = 1
                     /\ a[1].Name = "invite.ics"
                     /\ a[1].Content = Base64(p.icsContent)
                     /\ a[1].ContentType.type = "text/calendar"
                     /\ a[1].ContentType.method = IF p.icsMethod = Undef THEN "REQUEST" ELSE p.icsMethod
                ELSE a = <<>>

\* a cancellation document has been attached with method CANCEL
C15_Witness ==
    /\ MailInvoked /\ Len(fetches) = 1
    /\ "icsContent" \in DOMAIN probe.arg /\ probe.arg.icsContent # EmptyString
    /\ probe.arg.icsMethod = "CANCEL"
    /\ fetches[1].message.Attachments[1].ContentType.method = "CANCEL"
    /\ fetches[1].message.Attachments[1].Content.base64 = probe.arg.icsContent

(***************************************************************************)
(* Two-factor setup (two-factor/totp/setup/route.ts:21-143): postHandler   *)
(* of one user's requests.  Each await of the handler ends a step; the     *)
(* database row of the user is read by findUnique and written by update.   *)
(***************************************************************************)
\* Buffer.from(key, "base64").length of the keys of the model
KeyByteLength == ("MDEyMzQ1Njc4OWFiY2RlZjAxMjM0NTY3ODlhYmNkZWY=" :> 32) @@ ("c2hvcnQ=" :> 5) @@ ("MDEyMzQ1Njc4OWFiY2RlZjAxMjM0NTY3ODlhYmNkZWYw" :> 33)

EncryptionKeys == {Undef, ""} \cup DOMAIN KeyByteLength

\* A text is a sequence of UTF-16 code units.  "D83D" is a high surrogate,
\* "DE00" a low surrogate, "FFFD" the replacement character; every other
\* unit stands for itself.  The "utf8" input encoding of cipher.update
\* (route.ts:682) writes a surrogate pair as one scalar value and a surrogate
\* without its partner as the replacement character.
RECURSIVE Utf8Encode(_)
Utf8Encode(text) ==
    IF text = <<>> THEN <<>>
    ELSE IF Head(text) = "D83D" /\ Len(text) >= 2 /\ text[2] = "DE00"
         THEN <<"1F600">> \o Utf8Encode(Tail(Tail(text)))
         ELSE IF Head(text) \in {"D83D", "DE00"}
              THEN <<"FFFD">> \o Utf8Encode(Tail(text))
              ELSE <<Head(text)>> \o Utf8Encode(Tail(text))

\* the "utf8" output encoding of decipher.update and decipher.final
\* (route.ts:720-721)
RECURSIVE Utf8Decode(_)
Utf8Decode(bytes) ==
    IF bytes = <<>> THEN <<>>
    ELSE IF Head(bytes) = "1F600"
         THEN <<"D83D", "DE00">> \o Utf8Decode(Tail(bytes))
         ELSE <<Head(bytes)>> \o Utf8Decode(Tail(bytes))

\* the pieces of a ciphertext string: the hex digits of some bytes, and ":"
Hex(bytes) == [kind |-> "hex", bytes |-> bytes]

Colon == [kind |-> ":", bytes |-> <<>>]

\* route.ts:662-692: throws unless the key decodes to 32 bytes; the ciphertext
\* is the hex IV, ":" and the hex cipher output of the UTF-8 bytes of the text
\* under the key and the IV
symmetricEncrypt(text, key, iv) ==
    IF KeyByteLength[key] # 32
    THEN [threw |-> TRUE, value |-> <<>>]
    ELSE [threw |-> FALSE,
          value |-> << <<Hex(iv), Colon, Hex([key |-> key, iv |-> iv, plain |-> Utf8Encode(text)])>> >>]

\* route.ts:699-729 without the components.shift() of line 714: the IV stays
\* in the data handed to the decipher
symmetricDecryptWithoutShift(text, key) ==
    IF KeyByteLength[key] # 32
    THEN [threw |-> TRUE, value |-> <<>>]
    ELSE LET components == SelectSeq(text, LAMBDA piece : piece.kind = "hex")
             iv_from_ciphertext == IF components = <<>> THEN "" ELSE Head(components).bytes
             joined == components
         IN  IF Len(joined) = 1 /\ joined[1].bytes.key = key /\ joined[1].bytes.iv = iv_from_ciphertext
             THEN [threw |-> FALSE, value |-> <<Utf8Decode(joined[1].bytes.plain)>>]
             ELSE [threw |-> TRUE, value |-> <<>>]

\* route.ts:699-729: throws unless the key decodes to 32 bytes; splits the
\* text at ":", takes the first component as the hex IV and deciphers the rest
\* under the key and that IV.  decipher.final throws when the data was not
\* produced under the same key and IV.
symmetricDecrypt(text, key) ==
    IF KeyByteLength[key] # 32
    THEN [threw |-> TRUE, value |-> <<>>]
    ELSE LET components == SelectSeq(text, LAMBDA piece : piece.kind = "hex")
             iv_from_ciphertext == IF components = <<>> THEN "" ELSE Head(components).bytes
             joined == IF components = <<>> THEN <<>> ELSE Tail(components)
         IN  IF Len(joined) = 1 /\ joined[1].bytes.key = key /\ joined[1].bytes.iv = iv_from_ciphertext
             THEN [threw |-> FALSE, value |-> <<Utf8Decode(joined[1].bytes.plain)>>]
             ELSE [threw |-> TRUE, value |-> <<>>]

\* what the random sources give one request: generateSecret(20), the ten
\* randomBytes(5) of the backup codes, the randomBytes(16) of the two IVs
RandomDraws ==
    { [secret |-> "JBSWY3DPEHPK3PXP", backupCodes |-> <<"0a1b2c3d4e">>, ivs |-> <<"iv-1", "iv-2">>],
      [secret |-> "KRSXG5CTMVRXEZLU", backupCodes |-> <<"f9e8d7c6b5">>, ivs |-> <<"iv-3", "iv-4">>] }

PasswordHash(password) == "hash:" \o password

\* verifyPassword(body.password, user.password.hash)
verifyPassword(password, hash) == password # Undef /\ PasswordHash(password) = hash

keyuri(name, issuer, secret) == [name |-> name, issuer |-> issuer, secret |-> secret]

JsonResponse(status, error) ==
    [status |-> status, error |-> error, secret |-> <<>>, keyUri |-> <<>>, backupCodes |-> <<>>]

\* the rows the user may have when the requests arrive; no two-factor secret
\* or backup codes are stored yet
UserRows ==
    { [id |-> 7, email |-> "ann@x.io", identityProvider |-> ip, passwordHash |-> h,
       twoFactorEnabled |-> en, twoFactorSecret |-> <<>>, backupCodes |-> <<>>] :
        ip \in {"CAL", "GOOGLE"}, h \in {Undef, PasswordHash("pw")}, en \in BOOLEAN }

\* getServerSession: no session, a session without a user id, the user's session
Sessions == { <<>>, <<[user |-> <<>>]>>, <<[user |-> <<[id |-> 7]>>]>> }

NewSetup ==
    [pc |-> "new", password |-> Undef, session |-> <<>>, rateLimit |-> "pending", user |-> <<>>,
     secret |-> <<>>, backupCodes |-> <<>>, data |-> <<>>, response |-> <<>>]

\* lines 32-40
sessionChecks(session) ==
    IF session = <<>> THEN <<JsonResponse(401, "Not authenticated")>>
    ELSE IF session[1].user = <<>> THEN <<JsonResponse(500, "internal_server_error")>>
    ELSE <<>>

userChecksNoTwoFactorCheck(u, encryptionKey) ==
    IF u = <<>> THEN <<JsonResponse(401, "Not authenticated")>>
    ELSE IF u[1].identityProvider # "CAL" /\ Falsy(u[1].passwordHash)
    THEN <<JsonResponse(400, "third_party_identity_provider_enabled")>>
    ELSE IF Falsy(u[1].passwordHash) THEN <<JsonResponse(400, "user_missing_password")>>
    ELSE IF Falsy(encryptionKey) THEN <<JsonResponse(500, "internal_server_error")>>
    ELSE <<>>

\* lines 53-83
userChecks(u, encryptionKey) ==
    IF u = <<>> THEN <<JsonResponse(401, "Not authenticated")>>
    ELSE IF u[1].identityProvider # "CAL" /\ Falsy(u[1].passwordHash)
    THEN <<JsonResponse(400, "third_party_identity_provider_enabled")>>
    ELSE IF Falsy(u[1].passwordHash) THEN <<JsonResponse(400, "user_missing_password")>>
    ELSE IF u[1].twoFactorEnabled THEN <<JsonResponse(400, "two_factor_already_enabled")>>
    ELSE IF Falsy(encryptionKey) THEN <<JsonResponse(500, "internal_server_error")>>
    ELSE <<>>

Settle(i, response) == [setup EXCEPT ![i].pc = "done", ![i].response = <<response>>]
Throw(i) == [setup EXCEPT ![i].pc = "threw"]

WebhookIdle == <<env, req, pc, parsed, trigger, built, fetches, res, nreq, uuids, stage, log, booking, probe>>

\* lines 25-40: the body and the session are read, the session is checked
GetServerSession(i) ==
    /\ setup[i].pc = "new"
    /\ \E parsedBody \in BOOLEAN, password \in {"pw", "guess"}, session \in Sessions :
          LET r == sessionChecks(session) IN
          setup' = IF ~parsedBody THEN Throw(i)
                   ELSE IF r # <<>> THEN [Settle(i, r[1]) EXCEPT ![i].session = session]
                   ELSE [setup EXCEPT ![i].pc = "rateLimit", ![i].password = password,
                                      ![i].session = session]
    /\ UNCHANGED <<WebhookIdle, user>>

\* lines 43-46: checkRateLimitAndThrowError passes or throws
CheckRateLimit(i) ==
    /\ setup[i].pc = "rateLimit"
    /\ \E passes \in BOOLEAN :
          setup' = IF passes THEN [setup EXCEPT ![i].pc = "findUnique", ![i].rateLimit = "passed"]
                   ELSE [Throw(i) EXCEPT ![i].rateLimit = "exceeded"]
    /\ UNCHANGED <<WebhookIdle, user>>

\* lines 49-86: the row is read and checked, verifyPassword is called
FindUnique(i) ==
    /\ setup[i].pc = "findUnique"
    /\ LET r == userChecks(user, env.CALENDSO_ENCRYPTION_KEY) IN
       setup' = IF r # <<>> THEN [Settle(i, r[1]) EXCEPT ![i].user = user]
                ELSE [setup EXCEPT ![i].pc = "verifyPassword", ![i].user = user]
    /\ UNCHANGED <<WebhookIdle, user>>

\* lines 86-121: the password is verified, the secret and the backup codes are
\* generated and encrypted, prisma.user.update is called
VerifyPassword(i) ==
    /\ setup[i].pc = "verifyPassword"
    /\ IF ~verifyPassword(setup[i].password, setup[i].user[1].passwordHash)
       THEN setup' = Settle(i, JsonResponse(400, "incorrect_password"))
       ELSE \E random \in RandomDraws :
              LET secret == random.secret
                  backupCodes == random.backupCodes
                  encryptedBackupCodes == symmetricEncrypt(backupCodes, env.CALENDSO_ENCRYPTION_KEY, random.ivs[1])
                  encryptedSecret == symmetricEncrypt(<<secret>>, env.CALENDSO_ENCRYPTION_KEY, random.ivs[2])
              IN  setup' = IF encryptedBackupCodes.threw \/ encryptedSecret.threw
                           THEN [Throw(i) EXCEPT ![i].secret = <<secret>>, ![i].backupCodes = <<backupCodes>>]
                           ELSE [setup EXCEPT ![i].pc = "update",
                                              ![i].secret = <<secret>>,
                                              ![i].backupCodes = <<backupCodes>>,
                                              ![i].data = << [backupCodes |-> encryptedBackupCodes.value,
                                                              twoFactorEnabled |-> FALSE,
                                                              twoFactorSecret |-> encryptedSecret.value] >>]
    /\ UNCHANGED <<WebhookIdle, user>>

\* lines 112-132: the database applies the update, the handler goes on to
\* the key URI and the QR code
Update(i) ==
    /\ setup[i].pc = "update"
    /\ IF user = <<>>
       THEN user' = user /\ setup' = Throw(i)
       ELSE /\ user' = << [user[1] EXCEPT !.backupCodes = setup[i].data[1].backupCodes,
                                           !.twoFactorEnabled = setup[i].data[1].twoFactorEnabled,
                                           !.twoFactorSecret = setup[i].data[1].twoFactorSecret] >>
            /\ setup' = [setup EXCEPT ![i].pc = "toDataURL"]
    /\ UNCHANGED WebhookIdle

\* lines 132-136: qrcode.toDataURL resolves and the response is returned, or
\* it rejects
ToDataURL(i) ==
    /\ setup[i].pc = "toDataURL"
    /\ \E drawn \in BOOLEAN :
          setup' = IF ~drawn THEN Throw(i)
                   ELSE Settle(i, [status |-> 200, error |-> "",
                                   secret |-> setup[i].secret,
                                   keyUri |-> <<keyuri(setup[i].user[1].email, "Cal", setup[i].secret[1])>>,
                                   backupCodes |-> setup[i].backupCodes])
    /\ UNCHANGED <<WebhookIdle, user>>

SetupInit ==
    /\ env \in { [CALENDSO_ENCRYPTION_KEY |-> k] @@ ConfiguredEnv : k \in EncryptionKeys }
    /\ req = NoRequest
    /\ pc = "idle"
    /\ parsed = FALSE
    /\ trigger = "none"
    /\ built = <<>>
    /\ fetches = <<>>
    /\ res = <<>>
    /\ nreq = 0
    /\ uuids = 0
    /\ stage = 0
    /\ log = <<>>
    /\ booking = BasePayload
    /\ probe = NoProbe
    /\ user \in { <<>> } \cup { <<u>> : u \in UserRows }
    /\ setup = [i \in 1..MaxSetups |-> NewSetup]

SetupNext ==
    \E i \in 1..MaxSetups :
        \/ GetServerSession(i)
        \/ CheckRateLimit(i)
        \/ FindUnique(i)
        \/ VerifyPassword(i)
        \/ Update(i)
        \/ ToDataURL(i)

SetupSpec == SetupInit /\ [][SetupNext]_vars

\* what the request i has learnt: every check of the handler has passed
ChecksPassed(i) ==
    LET l == setup[i] IN
    /\ l.session # <<>> /\ l.session[1].user # <<>>
    /\ l.rateLimit = "passed"
    /\ l.user # <<>>
    /\ ~Falsy(l.user[1].passwordHash)
    /\ ~l.user[1].twoFactorEnabled
    /\ ~Falsy(env.CALENDSO_ENCRYPTION_KEY)
    /\ l.password # Undef /\ PasswordHash(l.password) = l.user[1].passwordHash

\* the error of the first check, in the order of the handler, that the request i
\* fails; "" when it fails none
FirstFailedCheck(i) ==
    LET l == setup[i] IN
    IF l.session = <<>> THEN "Not authenticated"
    ELSE IF l.session[1].user = <<>> THEN "internal_server_error"
    ELSE IF l.user = <<>> THEN "Not authenticated"
    ELSE IF Falsy(l.user[1].passwordHash)
    THEN IF l.user[1].identityProvider = "CAL" THEN "user_missing_password"
         ELSE "third_party_identity_provider_enabled"
    ELSE IF l.user[1].twoFactorEnabled THEN "two_factor_already_enabled"
    ELSE IF Falsy(env.CALENDSO_ENCRYPTION_KEY) THEN "internal_server_error"
    ELSE IF l.password = Undef \/ PasswordHash(l.password) # l.user[1].passwordHash
    THEN "incorrect_password"
    ELSE ""

CarriesSecrets(response) ==
    response.secret # <<>> \/ response.keyUri # <<>> \/ response.backupCodes # <<>>

\* a response carries the secret, the key URI and the backup codes only with
\* status 200 after every check has passed, and a request that fails a check is
\* answered with the error of the first check it fails
SetupResponsesGuarded ==
    \A i \in 1..MaxSetups :
        LET l == setup[i] IN
        /\ l.pc = "done"
              => /\ l.response[1].error = FirstFailedCheck(i)
                 /\ CarriesSecrets(l.response[1])
                       <=> (l.response[1].status = 200 /\ ChecksPassed(i))
        /\ l.pc # "done" => l.response = <<>>
        /\ l.rateLimit = "exceeded" => l.pc = "threw"
        /\ l.pc \in {"update", "toDataURL"}
              => ChecksPassed(i) /\ KeyByteLength[env.CALENDSO_ENCRYPTION_KEY] = 32

\* a step that changes the row of the user is the update of a request that has
\* passed every check and encrypted without error; it stores that request's
\* encrypted backup codes and secret with twoFactorEnabled false and changes
\* nothing else
SetupWriteGuarded ==
    user' # user =>
        \E i \in 1..MaxSetups :
            /\ setup[i].pc = "update"
            /\ ChecksPassed(i)
            /\ KeyByteLength[env.CALENDSO_ENCRYPTION_KEY] = 32
            /\ user'[1].twoFactorSecret[1][3].bytes.plain = setup[i].secret
            /\ user'[1].backupCodes[1][3].bytes.plain = setup[i].backupCodes[1]
            /\ user'[1].twoFactorEnabled = FALSE
            /\ user'[1] = [user[1] EXCEPT !.backupCodes = user'[1].backupCodes,
                                          !.twoFactorEnabled = FALSE,
                                          !.twoFactorSecret = user'[1].twoFactorSecret]

\* C19: the handler writes the user's record (backup codes, two-factor secret,
\* twoFactorEnabled false) only after every check has passed in order: the session
\* exists with a user id, the rate limit passes, the user exists, has a password
\* hash, has not enabled two-factor, the encryption key is configured and the
\* password verifies; on any failed check, or when encryption throws, the record
\* is left unchanged and the response carries no secret, key URI or backup codes.
C19_WriteOnlyAfterChecks == [](SetupResponsesGuarded) /\ [][SetupWriteGuarded]_vars

\* one request has stored and returned its secret while the other, with a wrong
\* password, was refused
C19_Witness ==
    /\ setup[1].pc = "done" /\ setup[1].response[1].status = 200
    /\ user[1].twoFactorSecret[1][3].bytes.plain = setup[1].response[1].secret
    /\ setup[2].pc = "done" /\ setup[2].response[1].error = "incorrect_password"
    /\ setup[2].secret = <<>>

AllSetupsCompleted == \A i \in 1..MaxSetups : setup[i].pc \in {"done", "threw"}

\* C20: under any interleaving of the setup requests of one user, once all of
\* them have completed, the secret and the backup codes every successful
\* response returned are the ones stored (encrypted) in the user's record, and
\* both stored fields come from the same request.
C20_ReturnedSecretsAreStored ==
    AllSetupsCompleted =>
        /\ \A i \in 1..MaxSetups :
              (setup[i].pc = "done" /\ setup[i].response[1].status = 200)
                  => /\ user[1].twoFactorSecret[1][3].bytes.plain = setup[i].response[1].secret
                     /\ user[1].backupCodes[1][3].bytes.plain = setup[i].response[1].backupCodes[1]
        /\ (user # <<>> /\ user[1].twoFactorSecret # <<>>)
              => \E i \in 1..MaxSetups :
                    /\ setup[i].data # <<>>
                    /\ user[1].twoFactorSecret = setup[i].data[1].twoFactorSecret
                    /\ user[1].backupCodes = setup[i].data[1].backupCodes

(***************************************************************************)
(* The two cipher functions applied one after the other                    *)
(* (two-factor/totp/setup/route.ts:662-729): symmetricEncrypt of a text    *)
(* under a key, then symmetricDecrypt of the result under the same key.    *)
(* Where symmetricEncrypt threw, symmetricDecrypt is given a ciphertext    *)
(* that had been made of the text under the 32-byte key.                   *)
(***************************************************************************)
CodeUnits == {"a", ":", "D83D", "DE00"}

Texts == UNION { [1..n -> CodeUnits] : n \in 0..MaxTextLen }

\* what crypto.randomBytes(16) may give
CipherIVs == {"00112233445566778899aabbccddeeff", "0f1e2d3c4b5a69788796a5b4c3d2e1f0"}

ValidKey == CHOOSE key \in DOMAIN KeyByteLength : KeyByteLength[key] = 32

CryptoInit ==
    /\ env = ConfiguredEnv
    /\ req = NoRequest
    /\ pc = "idle"
    /\ parsed = FALSE
    /\ trigger = "none"
    /\ built = <<>>
    /\ fetches = <<>>
    /\ res = <<>>
    /\ nreq = 0
    /\ uuids = 0
    /\ stage = 0
    /\ log = <<>>
    /\ booking = BasePayload
    /\ probe \in { [fn |-> "symmetricEncrypt", arg |-> [text |-> text, key |-> key], out |-> <<>>] :
                      text \in Texts, key \in DOMAIN KeyByteLength }
    /\ user = <<>>
    /\ setup = <<>>

ApplySymmetricEncrypt ==
    /\ probe.fn = "symmetricEncrypt"
    /\ probe.out = <<>>
    /\ \E iv \in CipherIVs :
          probe' = [probe EXCEPT !.out = <<symmetricEncrypt(probe.arg.text, probe.arg.key, iv)>>]
    /\ UNCHANGED <<env, req, pc, parsed, trigger, built, fetches, res, nreq, uuids, stage, log, booking, user, setup>>

ApplySymmetricDecrypt ==
    /\ probe.fn = "symmetricEncrypt"
    /\ Len(probe.out) = 1
    /\ \E iv \in CipherIVs :
          LET ciphertext == IF probe.out[1].threw
                            THEN symmetricEncrypt(probe.arg.text, ValidKey, iv).value[1]
                            ELSE probe.out[1].value[1]
          IN  probe' = [probe EXCEPT !.out = Append(@, symmetricDecrypt(ciphertext, probe.arg.key))]
    /\ UNCHANGED <<env, req, pc, parsed, trigger, built, fetches, res, nreq, uuids, stage, log, booking, user, setup>>

CryptoNext == ApplySymmetricEncrypt \/ ApplySymmetricDecrypt

CryptoSpec == CryptoInit /\ [][CryptoNext]_vars

Encrypted == probe.fn = "symmetricEncrypt" /\ Len(probe.out) >= 1

Decrypted == probe.fn = "symmetricEncrypt" /\ Len(probe.out) = 2

\* the text has no surrogate without its partner
RECURSIVE WellFormed(_)
WellFormed(text) ==
    IF text = <<>> THEN TRUE
    ELSE IF Head(text) = "D83D"
         THEN Len(text) >= 2 /\ text[2] = "DE00" /\ WellFormed(Tail(Tail(text)))
         ELSE Head(text) # "DE00" /\ WellFormed(Tail(text))

\* the ciphertext is the hex IV, a colon, then the hex cipher output
IvColonOutput(ciphertext) ==
    /\ Len(ciphertext) = 3
    /\ \E iv \in CipherIVs : ciphertext[1] = Hex(iv)
    /\ ciphertext[2] = Colon
    /\ ciphertext[3].kind = "hex"

\* under a key that does not decode to exactly 32 bytes both functions throw
\* and produce no output; under a 32-byte key symmetricEncrypt gives the hex
\* IV, a colon and the hex cipher output
KeyLengthChecked ==
    Encrypted =>
        IF KeyByteLength[probe.arg.key] = 32
        THEN ~probe.out[1].threw /\ IvColonOutput(probe.out[1].value[1])
        ELSE \A i \in 1..Len(probe.out) : probe.out[i].threw /\ probe.out[i].value = <<>>

\* C22 as stated: for every text and every key that decodes to exactly 32
\* bytes, symmetricDecrypt(symmetricEncrypt(text, key), key) returns text, the
\* ciphertext being the hex IV, a colon and the hex cipher output; for any
\* other key both functions throw and produce no output.
C22_Original_RoundTripEveryText ==
    /\ KeyLengthChecked
    /\ Decrypted /\ KeyByteLength[probe.arg.key] = 32
           => ~probe.out[2].threw /\ probe.out[2].value = <<probe.arg.text>>

\* C22: for every text without an unpaired surrogate and every key that decodes
\* to exactly 32 bytes, symmetricDecrypt(symmetricEncrypt(text, key), key)
\* returns text, the ciphertext being the hex IV, a colon and the hex cipher
\* output; a text with an unpaired surrogate comes back with the replacement
\* character in its place; for any other key both functions throw and produce
\* no output.
C22_RoundTripWellFormedText ==
    /\ KeyLengthChecked
    /\ Decrypted /\ KeyByteLength[probe.arg.key] = 32
           => /\ ~probe.out[2].threw
              /\ WellFormed(probe.arg.text) => probe.out[2].value = <<probe.arg.text>>
              /\ ~WellFormed(probe.arg.text)
                     => /\ probe.out[2].value # <<probe.arg.text>>
                        /\ Len(probe.out[2].value[1]) = Len(probe.arg.text)
                        /\ \E i \in 1..Len(probe.arg.text) : probe.out[2].value[1][i] = "FFFD"

\* a text holding a colon and a surrogate pair has come back whole
C22_Witness ==
    /\ Decrypted
    /\ KeyByteLength[probe.arg.key] = 32
    /\ probe.arg.text \in {<<":", "a">>, <<"D83D", "DE00">>}
    /\ probe.out[2].value = <<probe.arg.text>>
    /\ probe.out[1].value[1][3].bytes.plain = Utf8Encode(probe.arg.text)

====
